---------------------------- MODULE Spec2Model ----------------------------
(***************************************************************************)
(* A model of jjkit: the lock-free SPSC ring buffer (jjring.cpp), the      *)
(* rotating-slot record codec (jjrecord.hpp) and the typed registry over a *)
(* byte buffer (jjreg.hpp).                                                *)
(*                                                                         *)
(* Eleven specifications share the module:                                 *)
(*   Spec        the ring driven by one producer and one consumer thread,  *)
(*               interleaved at the level of cursor loads, slot copies and *)
(*               cursor stores; a load of a cursor returns the last value  *)
(*               stored or an older one the loading thread may still see   *)
(*               under the release / acquire ordering of the accesses;     *)
(*   SpecRecord  one writer record rotating over the storage slots, with   *)
(*               default-constructed readers reading the storage back;     *)
(*   SpecRead    read() applied to storage contents drawn from a bounded   *)
(*               set of slot images (valid, bad CRC, bad type, erased);    *)
(*   SpecApi     the ring API called from one thread at a time, every call *)
(*               running to its end before the next one starts, for each   *)
(*               N = 2, 4, .. and each position of the cursors;            *)
(*   SpecOverwrite  a producer calling push_overwrite while a consumer     *)
(*               calls pop, interleaved as in Spec;                        *)
(*   SpecState   the calls of SpecApi and clear();                         *)
(*   SpecSize    size_approx() called while push and pop run concurrently; *)
(*   SpecSchema  operations made through a view of a schema over a buffer  *)
(*               the caller filled beforehand, or through a buffer_t;      *)
(*   SpecReaders read() as in SpecRead, by records constructed at the      *)
(*               default cursor or at another one;                         *)
(*   SpecResume  SpecRecord with every write stored, the record that read  *)
(*               the storage back calling write_next in its turn;          *)
(*   SpecStatus  full(), push and push_overwrite on the producer thread,   *)
(*               empty() and pop on the consumer thread, interleaved as in *)
(*               Spec.                                                     *)
(***************************************************************************)
EXTENDS Integers, Sequences, FiniteSets

VARIABLES
    \* ---- RECORD (jjrecord.hpp) ----
    R,          \* template parameter Redundancy of the instantiation
    storage,    \* the storage area: slot index -> slot image (Size bytes)
    writer,     \* the writing record object: [data, slot]
    writeRet,   \* what the last write_next returned: "true", "false" ("none" before any)
    writeLog,   \* the write_fn invocations so far, oldest first
    writeCount, \* number of write_next calls of the writer so far
    reader,     \* the reading record object: [data, slot]; it may write after its read()
    readInit,   \* the reader as constructed, before its read()
    readFailing,\* the slots read_fn failed on during the last read()
    readRet,    \* what the last read() returned: "true", "false" ("none" before any)
    readCalls,  \* the slot indices read_fn was invoked with by the last read()
    readSteps,  \* the read_slot calls of the last read(), in order
    \* ---- RING (jjring.cpp) ----
    head,       \* jjring_::head, the producer's cursor: the last value stored
    tail,       \* jjring_::tail, the consumer's cursor: the last value stored
    buf,        \* the N slots of the buffer (0: never written)
    prod,       \* the producer thread: its position and locals
    cons,       \* the consumer thread: its position and locals
    pushed,     \* number of elements enqueued so far: the values 1..pushed
    popped,     \* the values handed to the consumer so far, in order
    mem,        \* the stores of head and of tail that some thread may still
                \* load, oldest first, and how far each thread has seen them
    logN,       \* the instantiation jjring<T, N>: N = 2^logN
    call,       \* the API call in progress or last completed, as its caller sees it
    prev,       \* the call before it
    evicted,    \* number of times push_overwrite advanced tail
    cleared,    \* number of stored elements dropped by clear()
    obs,        \* a thread calling size_approx(): its position and locals; in
                \* SpecStatus, what full() and empty() told each side
    \* ---- SCHEMA (jjreg.hpp) ----
    schema,     \* the schema declaration the view was made from (its name)
    regdata,    \* the caller's buffer under the view (data): capacity bytes
    fill,       \* the byte the caller filled the buffer with beforehand,
                \* Indeterminate for the data array of a buffer_t
    ops,        \* number of operations made through the view so far
    last        \* the last operation made through the view, and what it returned

\* what the callers of the ring API observe, and the instantiation
apivars == <<logN, call, prev, evicted, cleared, obs>>

ringvars == <<head, tail, buf, prod, cons, pushed, popped, mem, apivars>>

recvars == <<R, storage, writer, writeRet, writeLog, writeCount,
             reader, readInit, readFailing, readRet, readCalls, readSteps>>

regvars == <<schema, regdata, fill, ops, last>>

vars == <<recvars, ringvars, regvars>>

----------------------------------------------------------------------------
(* Bounds of the model *)

\* Largest Redundancy instantiated (instantiations 1..MaxRedundancy).
MaxRedundancy == 3
\* Number of write_next calls followed in one behaviour of SpecRecord.
MaxWrites == 3
\* Number of write_fn calls of one behaviour that fail or are torn.
MaxFaults == 1
\* SpecRead draws the sequence number of slot 0 within SeqMargin of either end
\* of the byte range, where the wrap-around happens.
SeqMargin == 2
\* Number of operations made through a view in one behaviour of SpecSchema.
MaxOps == 3
\* The same for the views of the schemas that nest schemas in nested schemas.
MaxDeepOps == 2
\* The buffer a caller hands to a view is MaxSlack bytes longer than the
\* capacity of the schema.
MaxSlack == 2
\* The bulk set of an array is handed up to MaxExcess items more than it has.
MaxExcess == 1
\* The ring has N = 2^LogN slots.
LogN == 2
\* Number of elements the producer enqueues in one behaviour of Spec.
MaxValues == 6
\* Largest size passed to a bulk push or a bulk pop.
MaxBulk == 3
\* Number of elements the producer enqueues in one behaviour of SpecSize and
\* of SpecStatus, where status calls run beside the pushes and the pops.
MaxObserved == 4
\* SpecState: clear() is called while fewer elements than this were dropped
\* by clear().
MaxCleared == 1

----------------------------------------------------------------------------
(* Bytes and bit operations *)

Byte == 0..255

\* bit k of v
Bit(v, k) == (v \div (2 ^ k)) % 2

\* v ^ (1 << k)
FlipBit(v, k) == IF Bit(v, k) = 1 THEN v - (2 ^ k) ELSE v + (2 ^ k)

\* a ^ b on uint8_t operands
BitXor8(a, b) ==
    ((Bit(a, 0) + Bit(b, 0)) % 2)
    + 2 * ((Bit(a, 1) + Bit(b, 1)) % 2)
    + 4 * ((Bit(a, 2) + Bit(b, 2)) % 2)
    + 8 * ((Bit(a, 3) + Bit(b, 3)) % 2)
    + 16 * ((Bit(a, 4) + Bit(b, 4)) % 2)
    + 32 * ((Bit(a, 5) + Bit(b, 5)) % 2)
    + 64 * ((Bit(a, 6) + Bit(b, 6)) % 2)
    + 128 * ((Bit(a, 7) + Bit(b, 7)) % 2)

\* BitXor8 tabulated as tuples: Xor8Table[a + 1][b + 1] = a ^ b
Xor8Table ==
    <<>> \o [a \in 1..256 |-> <<>> \o [b \in 1..256 |-> BitXor8(a - 1, b - 1)]]

Xor8(a, b) == Xor8Table[a + 1][b + 1]

\* A sequence of n bytes all equal to b (uninitialised or erased memory).
Fill(n, b) == [k \in 1..n |-> b]

----------------------------------------------------------------------------
(* jjrecord_crc16: CRC-16-CCITT *)

polynomial == 4129

\* v ^ polynomial, for a v whose bits are flipped at positions 0, 5 and 12
XorPolynomial(v) == FlipBit(FlipBit(FlipBit(v, 0), 5), 12)

RECURSIVE crc16_bits(_, _)
\* the inner loop: j shift steps of a uint16_t
crc16_bits(crc, j) ==
    IF j = 0 THEN crc
    ELSE crc16_bits(IF crc >= 32768
                    THEN XorPolynomial((crc * 2) % 65536)
                    ELSE (crc * 2) % 65536,
                    j - 1)

\* the eight shift steps of the inner loop, tabulated over every uint16_t:
\* crc16_shift8[c + 1] is the crc after the inner loop entered with c
crc16_shift8 == <<>> \o [c \in 1..65536 |-> crc16_bits(c - 1, 8)]

RECURSIVE crc16_bytes(_, _, _)
\* the outer loop over data[i..]: crc ^= data[i] << 8, then the inner loop
crc16_bytes(data, i, crc) ==
    IF i > Len(data) THEN crc
    ELSE crc16_bytes(data, i + 1,
                     crc16_shift8[(Xor8(crc \div 256, data[i]) * 256)
                                  + (crc % 256) + 1])

jjrecord_crc16(data) == crc16_bytes(data, 1, 65535)

----------------------------------------------------------------------------
(* The instantiation jjrecord<Type, Size, R> *)

jjrecord_header_size == 4
\* Template parameters of the smallest instantiation of the test suite.
Type == 119
Size == 5
payload_size == Size - jjrecord_header_size

\* Payload bytes the writer's user stores before its i-th write (0xC0 | i).
UserPayload(i) == Fill(payload_size, 192 + (i % 64))

\* The content of a byte that no code has written yet.  Its value is
\* indeterminate: any of 0..255, each byte on its own and as the build and
\* the memory's past decide.  A byte holding Indeterminate in a state stands
\* for every such value; it is no member of Byte, so it equals no byte that
\* was written.
Indeterminate == -1

Slots == 0..(R - 1)

\* bytes [from..to) of a buffer (0-based, as in the source)
Bytes(bytes, from, to) == SubSeq(bytes, from + 1, to)

\* the payload() region of a record's data
payload(rec) == Bytes(rec.data, jjrecord_header_size, Size)

\* jjrecord(slot_t slot): the data array is left uninitialised
jjrecord(slot) == [data |-> Fill(Size, Indeterminate), slot |-> slot]

\* jjrecord_slot_t::next : uint8_t arithmetic on the sequence number
nextMod255(slot) ==
    [index |-> (slot.index + 1) % R,
     sequence_number |-> (slot.sequence_number + 1) % 255]

nextSameIndex(slot) ==
    [index |-> slot.index % R,
     sequence_number |-> (slot.sequence_number + 1) % 256]

next(slot) ==
    [index |-> (slot.index + 1) % R,
     sequence_number |-> (slot.sequence_number + 1) % 256]

\* jjrecord::write_slot : the record's data with the header laid out
write_slot(rec) ==
    LET body == [k \in 1..Size |->
                    IF k = 3 THEN Type
                    ELSE IF k = 4 THEN rec.slot.sequence_number
                    ELSE rec.data[k]]
        crc == jjrecord_crc16(Bytes(body, 2, Size))
    IN  [body EXCEPT ![1] = crc % 256, ![2] = (crc \div 256) % 256]

\* The ways the storage back-end may serve one write_fn(index, data, size):
\*   "ok"    the slot receives the data, write_fn returns true;
\*   "fail"  the slot keeps its content, write_fn returns false;
\*   "torn"  power is cut after the header: the slot holds the header and
\*           zeroes, write_fn returns true.
WriteOutcomes == {"ok", "fail", "torn"}

write_fn(st, index, data, outcome) ==
    CASE outcome = "ok"   -> [storage |-> [st EXCEPT ![index] = data], ret |-> TRUE]
      [] outcome = "fail" -> [storage |-> st, ret |-> FALSE]
      [] outcome = "torn" ->
            [storage |-> [st EXCEPT ![index] =
                            [k \in 1..Size |->
                                IF k <= jjrecord_header_size THEN data[k] ELSE 0]],
             ret |-> TRUE]

\* jjrecord::write_next
write_nextTrue(rec, st, outcome) ==
    LET adv == [rec EXCEPT !.slot = next(rec.slot)]
        out == write_slot(adv)
        w   == write_fn(st, adv.slot.index, out, outcome)
    IN  [rec     |-> [adv EXCEPT !.data = out],
         storage |-> w.storage,
         calls   |-> <<[index |-> adv.slot.index, data |-> out, ret |-> w.ret,
                        from |-> rec.slot, outcome |-> outcome]>>,
         ret     |-> TRUE]

write_next(rec, st, outcome) ==
    LET adv == [rec EXCEPT !.slot = next(rec.slot)]
        out == write_slot(adv)
        w   == write_fn(st, adv.slot.index, out, outcome)
    IN  [rec     |-> [adv EXCEPT !.data = out],
         storage |-> w.storage,
         calls   |-> <<[index |-> adv.slot.index, data |-> out, ret |-> w.ret,
                        from |-> rec.slot, outcome |-> outcome]>>,
         ret     |-> w.ret]

----------------------------------------------------------------------------
(* Reading *)

\* the validity checks of read_slot that do not depend on the reader
crc_ok(in) == in[1] + (256 * in[2]) = jjrecord_crc16(Bytes(in, 2, Size))
type_ok(in) == in[3] = Type

RECURSIVE normalise(_)
\* while(distance < 0) distance += 0xFF;
normalise(distance) ==
    IF distance < 0 THEN normalise(distance + 255) ELSE distance

\* the distance of read_slot, lines 172..176
seq_distanceNoWrap(seqnum_read, current) ==
    IF seqnum_read < current THEN 255 ELSE (seqnum_read - current) % 255

seq_distance(seqnum_read, current) == normalise(seqnum_read - current) % 255

\* the window test of read_slot, lines 171..180
in_windowStrict(slot_index, seqnum_read, current) ==
    slot_index = 0 \/ (0 < seq_distance(seqnum_read, current)
                       /\ seq_distance(seqnum_read, current) < R)

in_window(slot_index, seqnum_read, current) ==
    slot_index = 0 \/ seq_distance(seqnum_read, current) < R

\* jjrecord::read_slot : [ok, rec]
read_slotKeepsIndex(rec, slot_index, in) ==
    IF ~crc_ok(in) THEN [ok |-> FALSE, rec |-> rec]
    ELSE IF ~type_ok(in) THEN [ok |-> FALSE, rec |-> rec]
    ELSE IF ~in_window(slot_index, in[4], rec.slot.sequence_number)
         THEN [ok |-> FALSE, rec |-> [rec EXCEPT !.slot.index = slot_index]]
    ELSE [ok  |-> TRUE,
          rec |-> [data |-> [k \in 1..Size |->
                                IF k > jjrecord_header_size THEN in[k]
                                ELSE rec.data[k]],
                   slot |-> [index |-> slot_index, sequence_number |-> in[4]]]]

read_slot(rec, slot_index, in) ==
    IF ~crc_ok(in) THEN [ok |-> FALSE, rec |-> rec]
    ELSE IF ~type_ok(in) THEN [ok |-> FALSE, rec |-> rec]
    ELSE IF ~in_window(slot_index, in[4], rec.slot.sequence_number)
         THEN [ok |-> FALSE, rec |-> rec]
    ELSE [ok  |-> TRUE,
          rec |-> [data |-> [k \in 1..Size |->
                                IF k > jjrecord_header_size THEN in[k]
                                ELSE rec.data[k]],
                   slot |-> [index |-> slot_index, sequence_number |-> in[4]]]]

\* What read() does when read_fn fails at slot i: return false at once.
\* [stop, ret]
on_read_failureContinue(found) == [stop |-> FALSE, ret |-> found]

on_read_failure(found) == [stop |-> TRUE, ret |-> FALSE]

RECURSIVE read_loop(_, _, _, _, _, _, _)
\* the for loop of jjrecord::read from slot i on; read_fn fails on the slots
\* of failing.  [ret, rec, calls, steps]
read_loop(i, rec, found, calls, steps, st, failing) ==
    IF i >= R THEN [ret |-> found, rec |-> rec, calls |-> calls, steps |-> steps]
    ELSE IF i \in failing
         THEN LET f == on_read_failure(found)
              IN  IF f.stop
                  THEN [ret |-> f.ret, rec |-> rec,
                        calls |-> Append(calls, i), steps |-> steps]
                  ELSE read_loop(i + 1, rec, found, Append(calls, i), steps,
                                 st, failing)
    ELSE LET r == read_slot(rec, i, st[i])
         IN  read_loop(i + 1, r.rec, found \/ r.ok, Append(calls, i),
                       Append(steps, [index |-> i, ok |-> r.ok,
                                      before |-> rec, after |-> r.rec]),
                       st, failing)

\* jjrecord::read
read(rec, st, failing) == read_loop(0, rec, FALSE, <<>>, <<>>, st, failing)

----------------------------------------------------------------------------
(* RING: jjring_ over N slots *)

N == 2 ^ logN
\* x & mask, with mask = N - 1 and N a power of two
Masked(x) == x % N

MinLeft(a, b) == a

Min(a, b) == IF a < b THEN a ELSE b

\* push, lines 49..50: the buffer is full
push_fullNever(h, t) == FALSE

push_fullEarly(h, t) == Masked(h + 2) = t

push_full(h, t) == Masked(h + 1) = t

\* push(src, size) and write_acquire, lines 63 and 144: free slots, one kept empty
push_spaceNoGap(h, t) == Masked(t + N - 1 - h) + 1

push_space(h, t) == Masked(t + N - 1 - h)

\* pop, line 102: the buffer is empty
pop_empty(h, t) == h = t

\* pop(dst, size) and read_acquire, lines 115 and 165: stored elements
pop_avail(h, t) == Masked(h + N - t)

\* the slot of item i of a bulk transfer of `size` items starting at `cursor`:
\* a first chunk of min(size, N - cursor) items up to the wrap, the rest
\* from slot 0 (lines 72..81 and 125..134)
bulk_slotNoSplit(cursor, size, i) ==
    IF cursor + i < N THEN cursor + i ELSE N - 1

bulk_slot(cursor, size, i) ==
    LET c1 == Min(N - cursor, size)
    IN  IF i < c1 THEN cursor + i ELSE i - c1

\* write_acquire, lines 144..153: [n, ptr] with ptr a slot index or "null"
write_acquireNoWrap(h, t) ==
    LET space == Masked(t + N - 1 - h)
    IN  IF space = 0 THEN [n |-> 0, ptr |-> "null"]
        ELSE [n |-> space, ptr |-> h]

write_acquire(h, t) ==
    LET space == push_space(h, t)
    IN  IF space = 0 THEN [n |-> 0, ptr |-> "null"]
        ELSE [n |-> Min(space, N - h), ptr |-> h]

\* read_acquire, lines 165..175
read_acquireBeyond(t, h) ==
    LET avail == pop_avail(h, t)
    IN  IF avail = 0 THEN [n |-> 0, ptr |-> "null"]
        ELSE [n |-> Min(avail + 1, N - t), ptr |-> t]

read_acquireOne(t, h) ==
    IF Masked(h + N - t) = 0 THEN [n |-> 0, ptr |-> "null"]
    ELSE [n |-> 1, ptr |-> t]

read_acquire(t, h) ==
    LET avail == pop_avail(h, t)
    IN  IF avail = 0 THEN [n |-> 0, ptr |-> "null"]
        ELSE [n |-> Min(avail, N - t), ptr |-> t]

\* the cursor value stored by push(src, size), write_commit, pop(dst, size)
\* and read_commit
advance(cursor, n) == Masked(cursor + n)

\* The cursors are read and written with acquire loads, relaxed loads and
\* release stores only.  Nothing orders a store of one cursor before a later
\* load of the other cursor, so a load returns the last value stored or an
\* older one: any store of the cursor that the loading thread has not seen
\* overtaken yet.  mem keeps, for head and for tail, those stores oldest
\* first (the last one is the value of the variable head, tail); a store
\* is [val, sees], sees being the store of the other cursor its thread had
\* seen, which an acquire load hands to the loading thread; mem.view gives
\* for each thread the oldest store of each cursor it may still load.
\* Threads: "P" the producer, "C" the consumer, "S" the caller of
\* size_approx; "T" when one thread makes every call.
Other(c) == IF c = "head" THEN "tail" ELSE "head"

Thread(m, role) == IF role \in DOMAIN m.view THEN role ELSE "T"

Later(a, b) == IF a < b THEN b ELSE a

Earlier(a, b) == IF a < b THEN a ELSE b

\* the stores of cursor c a load by the thread may return
Readable(role, c) == mem.view[Thread(mem, role)][c]..Len(mem[c])

\* A store no thread may load any more is forgotten, and so is what a
\* store has seen once every thread that may load it has seen as much.
Trim(m) ==
    LET cut(c) == CHOOSE k \in 0..Len(m[c]) :
                     /\ \A th \in DOMAIN m.view : k < m.view[th][c]
                     /\ \E th \in DOMAIN m.view : k + 1 = m.view[th][c]
        tells(c, j) == \E th \in DOMAIN m.view :
                          /\ m.view[th][c] <= j
                          /\ m.view[th][Other(c)] < m[c][j].sees
        kept(c) == [k \in 1..(Len(m[c]) - cut(c)) |->
                      [val  |-> m[c][k + cut(c)].val,
                       sees |-> IF tells(c, k + cut(c))
                                THEN m[c][k + cut(c)].sees - cut(Other(c))
                                ELSE 1]]
    IN  [head |-> kept("head"),
         tail |-> kept("tail"),
         view |-> [th \in DOMAIN m.view |->
                     [head |-> m.view[th].head - cut("head"),
                      tail |-> m.view[th].tail - cut("tail")]]]

\* __atomic_load_n(&x, __ATOMIC_RELAXED) returning the store at pos
load_relaxed(m, role, c, pos) ==
    Trim([m EXCEPT !.view[Thread(m, role)][c] = pos])

\* __atomic_load_n(&x, __ATOMIC_ACQUIRE) returning the store at pos: the
\* thread has then seen what the storing thread had seen
load_acquire(m, role, c, pos) ==
    Trim([m EXCEPT !.view[Thread(m, role)] =
            [@ EXCEPT ![c] = pos,
                      ![Other(c)] = Later(@, m[c][pos].sees)]])

\* A store that repeats the store before it, value and what it has seen,
\* offers the loads nothing the store before it does not: the two are kept
\* as one.
Merge(m, c) ==
    LET top == Len(m[c])
        o == Other(c)
    IN  IF top < 2 \/ m[c][top] # m[c][top - 1] THEN m
        ELSE [m EXCEPT
                ![c] = SubSeq(@, 1, top - 1),
                ![o] = [k \in 1..Len(m[o]) |->
                          [m[o][k] EXCEPT !.sees = Earlier(@, top - 1)]],
                !.view = [th \in DOMAIN m.view |->
                            [m.view[th] EXCEPT ![c] = Earlier(@, top - 1)]]]

\* __atomic_store_n(&x, v, __ATOMIC_RELEASE)
store_release(m, role, c, v) ==
    Merge(Trim([m EXCEPT
                  ![c] = Append(@, [val  |-> v,
                                    sees |-> m.view[Thread(m, role)][Other(c)]]),
                  !.view[Thread(m, role)][c] = Len(m[c]) + 1]), c)

\* the memory of a ring whose cursors were stored before its threads started
Memory(h, t, threads) ==
    [head |-> <<[val |-> h, sees |-> 1]>>,
     tail |-> <<[val |-> t, sees |-> 1]>>,
     view |-> [th \in threads |-> [head |-> 1, tail |-> 1]]]

Idle == [pc |-> "idle", op |-> "none", h |-> 0, t |-> 0, n |-> 0, size |-> 0,
         i |-> 0, dst |-> <<>>]

\* A call as its caller sees it: the side ("P" producer, "C" consumer), the
\* operation and its size argument, the ring when the call started, and what
\* the call gave back: ok (push, pop), count (bulk push, bulk pop, and the
\* count committed by write_commit / read_commit), win and ptr (write_acquire,
\* read_acquire), got (the elements copied out to the caller).
NoCall == [side |-> "none", op |-> "none", n |-> 0,
           head0 |-> 0, tail0 |-> 0, buf0 |-> <<>>, pushed0 |-> 0,
           done |-> FALSE, ok |-> FALSE, count |-> 0,
           win |-> 0, ptr |-> "null", got |-> <<>>]

\* the thread calling size_approx(): not in a call
NoObs == [pc |-> "idle", h |-> 0, ret |-> 0, seen |-> {}]

RingInit ==
    /\ logN = LogN
    /\ call = NoCall
    /\ prev = NoCall
    /\ evicted = 0
    /\ cleared = 0
    /\ obs = NoObs
    /\ head = 0
    /\ tail = 0
    /\ mem = Memory(0, 0, {"P", "C"})
    /\ buf = [k \in 0..(N - 1) |-> 0]
    /\ prod = Idle
    /\ cons = Idle
    /\ pushed = 0
    /\ popped = <<>>

\* The value of item i of the producer's current call: the elements enqueued
\* are numbered 1, 2, 3, ... in the order of their enqueueing.
Item(i) == pushed + i + 1

ProducerOps == {"push", "bulk", "acquire"}
ConsumerOps == {"pop", "bulk", "acquire"}

\* --- producer thread ---

\* The producer enters push / push(src, n) / write_acquire / push_overwrite:
\* h = load_relaxed(head).
P_Begin(op, n) ==
    /\ prod.pc = "idle"
    /\ pushed < MaxValues
    /\ n <= MaxValues - pushed
    /\ op # "bulk" => n = 0
    /\ \E pos \in Readable("P", "head") :
          /\ prod' = [Idle EXCEPT !.pc = "load_tail", !.op = op,
                                  !.h = mem.head[pos].val, !.n = n]
          /\ mem' = load_relaxed(mem, "P", "head", pos)
    /\ UNCHANGED <<head, tail, buf, cons, pushed, popped>>

\* t = load_acquire(tail), and the branch that follows it.
P_LoadTail ==
    /\ prod.pc = "load_tail"
    /\ \E pos \in Readable("P", "tail") :
       LET h == prod.h
           t == mem.tail[pos].val
       IN  /\ mem' = load_acquire(mem, "P", "tail", pos)
           /\ prod' =
             CASE prod.op = "push" ->
                    IF push_full(h, t) THEN Idle
                    ELSE [prod EXCEPT !.pc = "copy", !.t = t, !.size = 1]
               [] prod.op = "bulk" ->
                    IF push_space(h, t) = 0 THEN Idle
                    ELSE LET size == Min(prod.n, push_space(h, t))
                         IN  [prod EXCEPT !.pc = IF size = 0 THEN "store" ELSE "copy",
                                          !.t = t, !.size = size]
               [] prod.op = "acquire" ->
                    LET w == write_acquire(h, t)
                    IN  IF w.n = 0 THEN Idle
                        ELSE [prod EXCEPT !.pc = "window", !.t = t, !.n = w.n,
                                          !.h = w.ptr]
               [] prod.op = "overwrite" ->
                    [prod EXCEPT !.pc = IF push_full(h, t) THEN "evict" ELSE "copy",
                                 !.t = t, !.size = 1]
    /\ UNCHANGED <<head, tail, buf, cons, pushed, popped>>

\* push_overwrite on a full buffer: store_release(tail, (t + 1) & mask).
P_EvictSkip ==
    /\ prod.pc = "evict"
    /\ tail' = tail
    /\ mem' = mem
    /\ prod' = [prod EXCEPT !.pc = "copy"]
    /\ UNCHANGED <<head, buf, cons, pushed, popped>>

P_EvictTwo ==
    /\ prod.pc = "evict"
    /\ tail' = Masked(prod.t + 2)
    /\ mem' = store_release(mem, "P", "tail", Masked(prod.t + 2))
    /\ prod' = [prod EXCEPT !.pc = "copy"]
    /\ UNCHANGED <<head, buf, cons, pushed, popped>>

P_Evict ==
    /\ prod.pc = "evict"
    /\ tail' = advance(prod.t, 1)
    /\ mem' = store_release(mem, "P", "tail", advance(prod.t, 1))
    /\ prod' = [prod EXCEPT !.pc = "copy"]
    /\ UNCHANGED <<head, buf, cons, pushed, popped>>

\* memcpy of one element into its slot.
P_Copy ==
    /\ prod.pc = "copy"
    /\ buf' = [buf EXCEPT ![bulk_slot(prod.h, prod.size, prod.i)] = Item(prod.i)]
    /\ prod' = [prod EXCEPT !.i = prod.i + 1,
                            !.pc = IF prod.i + 1 = prod.size THEN "store" ELSE "copy"]
    /\ UNCHANGED <<head, tail, cons, pushed, popped, mem>>

\* store_release(head, ...) ends push and push(src, size).
P_StoreHead ==
    /\ prod.pc = "store"
    /\ head' = advance(prod.h, prod.size)
    /\ mem' = store_release(mem, "P", "head", advance(prod.h, prod.size))
    /\ pushed' = pushed + prod.size
    /\ prod' = Idle
    /\ UNCHANGED <<tail, buf, cons, popped>>

\* The user writes the next element through the pointer of write_acquire.
P_WindowWrite ==
    /\ prod.pc = "window"
    /\ prod.i < prod.n
    /\ pushed + prod.i < MaxValues
    /\ buf' = [buf EXCEPT ![prod.h + prod.i] = Item(prod.i)]
    /\ prod' = [prod EXCEPT !.i = prod.i + 1]
    /\ UNCHANGED <<head, tail, cons, pushed, popped, mem>>

\* write_commit(i) for the i elements written: h = load_relaxed(head).
P_Commit ==
    /\ prod.pc = "window"
    /\ \E pos \in Readable("P", "head") :
          /\ prod' = [prod EXCEPT !.pc = "commit_store",
                                  !.h = mem.head[pos].val, !.size = prod.i]
          /\ mem' = load_relaxed(mem, "P", "head", pos)
    /\ UNCHANGED <<head, tail, buf, cons, pushed, popped>>

\* write_commit: store_release(head, (h + n) & mask).
P_CommitStore ==
    /\ prod.pc = "commit_store"
    /\ head' = advance(prod.h, prod.size)
    /\ mem' = store_release(mem, "P", "head", advance(prod.h, prod.size))
    /\ pushed' = pushed + prod.size
    /\ prod' = Idle
    /\ UNCHANGED <<tail, buf, cons, popped>>

\* --- consumer thread ---

\* The consumer enters pop / pop(dst, n) / read_acquire:
\* t = load_relaxed(tail).
C_Begin(op, n) ==
    /\ cons.pc = "idle"
    /\ Len(popped) < MaxValues
    /\ op # "bulk" => n = 0
    /\ \E pos \in Readable("C", "tail") :
          /\ cons' = [Idle EXCEPT !.pc = "load_head", !.op = op,
                                  !.t = mem.tail[pos].val, !.n = n]
          /\ mem' = load_relaxed(mem, "C", "tail", pos)
    /\ UNCHANGED <<head, tail, buf, prod, pushed, popped>>

\* h = load_acquire(head), and the branch that follows it.
C_LoadHead ==
    /\ cons.pc = "load_head"
    /\ \E pos \in Readable("C", "head") :
       LET t == cons.t
           h == mem.head[pos].val
       IN  /\ mem' = load_acquire(mem, "C", "head", pos)
           /\ cons' =
             CASE cons.op = "pop" ->
                    IF pop_empty(h, t) THEN Idle
                    ELSE [cons EXCEPT !.pc = "copy", !.h = h, !.size = 1]
               [] cons.op = "bulk" ->
                    IF pop_avail(h, t) = 0 THEN Idle
                    ELSE LET size == Min(cons.n, pop_avail(h, t))
                         IN  [cons EXCEPT !.pc = IF size = 0 THEN "store" ELSE "copy",
                                          !.h = h, !.size = size]
               [] cons.op = "acquire" ->
                    LET w == read_acquire(t, h)
                    IN  IF w.n = 0 THEN Idle
                        ELSE [cons EXCEPT !.pc = "window", !.h = h, !.n = w.n,
                                          !.t = w.ptr]
    /\ UNCHANGED <<head, tail, buf, prod, pushed, popped>>

\* memcpy of one element out of its slot.
C_Copy ==
    /\ cons.pc = "copy"
    /\ cons' = [cons EXCEPT !.dst = Append(cons.dst,
                                    buf[bulk_slot(cons.t, cons.size, cons.i)]),
                            !.i = cons.i + 1,
                            !.pc = IF cons.i + 1 = cons.size THEN "store" ELSE "copy"]
    /\ UNCHANGED <<head, tail, buf, prod, pushed, popped, mem>>

\* store_release(tail, ...) ends pop and pop(dst, size): dst is the caller's.
C_StoreTail ==
    /\ cons.pc = "store"
    /\ tail' = advance(cons.t, cons.size)
    /\ mem' = store_release(mem, "C", "tail", advance(cons.t, cons.size))
    /\ popped' = popped \o cons.dst
    /\ cons' = Idle
    /\ UNCHANGED <<head, buf, prod, pushed>>

\* The user reads the next element through the pointer of read_acquire.
C_WindowRead ==
    /\ cons.pc = "window"
    /\ cons.i < cons.n
    /\ cons' = [cons EXCEPT !.dst = Append(cons.dst, buf[cons.t + cons.i]),
                            !.i = cons.i + 1]
    /\ UNCHANGED <<head, tail, buf, prod, pushed, popped, mem>>

\* read_commit(i) for the i elements read: t = load_relaxed(tail).
C_Commit ==
    /\ cons.pc = "window"
    /\ \E pos \in Readable("C", "tail") :
          /\ cons' = [cons EXCEPT !.pc = "commit_store",
                                  !.t = mem.tail[pos].val, !.size = cons.i]
          /\ mem' = load_relaxed(mem, "C", "tail", pos)
    /\ UNCHANGED <<head, tail, buf, prod, pushed, popped>>

\* read_commit: store_release(tail, (t + n) & mask).
C_CommitStore ==
    /\ cons.pc = "commit_store"
    /\ tail' = advance(cons.t, cons.size)
    /\ mem' = store_release(mem, "C", "tail", advance(cons.t, cons.size))
    /\ popped' = popped \o cons.dst
    /\ cons' = Idle
    /\ UNCHANGED <<head, buf, prod, pushed>>

----------------------------------------------------------------------------
(* SpecRecord: a writer rotating over the slots, readers reading back *)

\* a returned bool, as kept in writeRet and readRet
Ret(b) == IF b THEN "true" ELSE "false"

NoRecord == [data |-> <<>>, slot |-> [index |-> 0, sequence_number |-> 0]]

\* the default constructor: slot{0, 0}, data uninitialised
DefaultRecord == jjrecord([index |-> 0, sequence_number |-> 0])

\* an erased storage area
Erased == [i \in Slots |-> Fill(Size, 255)]

NoRead ==
    /\ reader = NoRecord
    /\ readInit = NoRecord
    /\ readFailing = {}
    /\ readRet = "none"
    /\ readCalls = <<>>
    /\ readSteps = <<>>

\* the ring is not part of the record specifications
RingUnused == RingInit

\* no operation made through a view yet
NoLast == [op |-> "none", k |-> 0, v |-> 0, n |-> 0,
           before |-> <<>>, ret |-> "none"]

\* the schema is not part of the ring and record specifications
SchemaUnused ==
    /\ schema = "none"
    /\ regdata = <<>>
    /\ fill = 0
    /\ ops = 0
    /\ last = NoLast

\* the record is not part of the ring specification
RecordUnused ==
    /\ R = 1
    /\ storage = <<>>
    /\ writer = NoRecord
    /\ writeRet = "none"
    /\ writeLog = <<>>
    /\ writeCount = 0
    /\ NoRead

RecInit ==
    /\ SchemaUnused
    /\ RingUnused
    /\ R \in 1..MaxRedundancy
    /\ storage = Erased
    /\ \E index \in Slots, s \in Byte :
          writer = jjrecord([index |-> index, sequence_number |-> s])
    /\ writeRet = "none"
    /\ writeLog = <<>>
    /\ writeCount = 0
    /\ NoRead

Faults == Cardinality({k \in 1..Len(writeLog) : writeLog[k].outcome # "ok"})

\* The user stores the next payload through payload(), then calls write_next
\* with a write_fn that behaves as `outcome`.
WriteNext(outcome) ==
    /\ writeCount < MaxWrites
    /\ outcome # "ok" => Faults < MaxFaults
    /\ LET prepared == [writer EXCEPT !.data =
                          [k \in 1..Size |->
                              IF k > jjrecord_header_size
                              THEN UserPayload(writeCount)[k - jjrecord_header_size]
                              ELSE writer.data[k]]]
           w == write_next(prepared, storage, outcome)
       IN  /\ writer' = w.rec
           /\ storage' = w.storage
           /\ writeLog' = writeLog \o w.calls
           /\ writeRet' = Ret(w.ret)
           /\ writeCount' = writeCount + 1
    \* the reader of an earlier read-back was a temporary
    /\ reader' = NoRecord
    /\ readInit' = NoRecord
    /\ readFailing' = {}
    /\ readRet' = "none"
    /\ readCalls' = <<>>
    /\ readSteps' = <<>>
    /\ UNCHANGED <<R, ringvars, regvars>>

\* The record `fresh` reads the storage; read_fn fails on the slots of
\* `failing`.
ReadWith(fresh, failing) ==
    LET r == read(fresh, storage, failing)
    IN  /\ readInit' = fresh
        /\ readFailing' = failing
        /\ reader' = r.rec
        /\ readRet' = Ret(r.ret)
        /\ readCalls' = r.calls
        /\ readSteps' = r.steps

\* A default-constructed record reads the storage, every read_fn succeeding.
\* (One read() is followed per storage content: a second default-constructed
\* reader would repeat it.)
Read ==
    /\ readRet = "none"
    /\ ReadWith(DefaultRecord, {})
    /\ UNCHANGED <<R, storage, writer, writeRet, writeLog, writeCount, ringvars, regvars>>

\* A default-constructed record reads the storage, read_fn failing at slot i.
ReadFailing ==
    /\ readRet = "none"
    /\ \E i \in Slots : ReadWith(DefaultRecord, {i})
    /\ UNCHANGED <<R, storage, writer, writeRet, writeLog, writeCount, ringvars, regvars>>

RecNext ==
    \/ \E outcome \in WriteOutcomes : WriteNext(outcome)
    \/ Read

SpecRecord == RecInit /\ [][RecNext]_vars

----------------------------------------------------------------------------
(* SpecRead: read() over storage contents drawn from slot images *)

\* jjrecord_tester_t::setup(index, sequence_number): the image write_slot
\* lays out for a record at that cursor whose payload names the slot
Setup(index, s) ==
    write_slot([data |-> Fill(jjrecord_header_size, 0) \o Fill(payload_size, index),
                slot |-> [index |-> index, sequence_number |-> s]])

\* memory[i][0] ^= 0x01 : the stored CRC no longer matches
CorruptCrc(image) == [image EXCEPT ![1] = FlipBit(image[1], 0)]

\* memory[i][2] ^= 0xFF, then the CRC recomputed over the bytes from the
\* type on and stored again: the only failing check is the type check
CorruptType(image) ==
    LET body == [image EXCEPT ![3] = 255 - image[3]]
        crc == jjrecord_crc16(Bytes(body, 2, Size))
    IN  [body EXCEPT ![1] = crc % 256, ![2] = (crc \div 256) % 256]

SeqBases == {s \in Byte : s <= SeqMargin \/ s >= 255 - SeqMargin}
SeqDeltas == (-1)..MaxRedundancy

\* What a slot is drawn to hold: a valid record whose sequence number lies
\* d after that of slot 0 (d in SeqDeltas), a record with a corrupted CRC, or
\* a record of another type.
BadCrc == MaxRedundancy + 1
BadType == MaxRedundancy + 2
SlotKinds == SeqDeltas \cup {BadCrc, BadType}

\* the image of slot i of kind k when slot 0 was set up around sequence s
SlotImage(i, s, k) ==
    IF k = BadCrc THEN CorruptCrc(Setup(i, s))
    ELSE IF k = BadType THEN CorruptType(Setup(i, s))
    ELSE Setup(i, (s + k + 256) % 256)

ReadInit ==
    /\ SchemaUnused
    /\ RingUnused
    /\ R \in 1..MaxRedundancy
    /\ \E s \in SeqBases, kinds \in [Slots -> SlotKinds] :
          /\ kinds[0] \in {0, BadCrc, BadType}
          /\ storage = [i \in Slots |-> SlotImage(i, s, kinds[i])]
    /\ writer = NoRecord
    /\ writeRet = "none"
    /\ writeLog = <<>>
    /\ writeCount = 0
    /\ NoRead

ReadNext ==
    \/ Read
    \/ ReadFailing

SpecRead == ReadInit /\ [][ReadNext]_vars

----------------------------------------------------------------------------
(* SpecResume: a record reads the storage back and goes on writing *)

\* the reading record has called write_next after its read()
Resumed == Len(writeLog) > writeCount

\* The writer's next write_next, its write_fn storing the slot.
ResumeWrite ==
    /\ ~Resumed
    /\ WriteNext("ok")

\* The record that read the storage back, once the writer is done.
ResumeRead ==
    /\ ~Resumed
    /\ Read

\* The record whose read() returned true stores the next payload through
\* payload() and calls write_next, write_fn storing the slot.
Resume ==
    /\ ~Resumed
    /\ readRet = "true"
    /\ LET prepared == [reader EXCEPT !.data =
                          [k \in 1..Size |->
                              IF k > jjrecord_header_size
                              THEN UserPayload(writeCount)[k - jjrecord_header_size]
                              ELSE reader.data[k]]]
           w == write_next(prepared, storage, "ok")
       IN  /\ reader' = w.rec
           /\ storage' = w.storage
           /\ writeLog' = writeLog \o w.calls
           /\ writeRet' = Ret(w.ret)
    /\ UNCHANGED <<R, writer, writeCount, readInit, readFailing, readRet,
                   readCalls, readSteps, ringvars, regvars>>

ResumeNext ==
    \/ ResumeWrite
    \/ ResumeRead
    \/ Resume

SpecResume == RecInit /\ [][ResumeNext]_vars

----------------------------------------------------------------------------
(* SpecReaders: read() by records constructed at any cursor *)

\* the cursors a reading record may have been constructed with: at the first
\* or the last slot, its sequence number 0, low or high
ReaderSlots ==
    {[index |-> index, sequence_number |-> s] :
        index \in {0, R - 1}, s \in {0, SeqMargin, 255 - SeqMargin}}

\* A record constructed with jjrecord(slot_t) reads the storage, every
\* read_fn succeeding or read_fn failing at slot i.
ReadFrom ==
    /\ readRet = "none"
    /\ \E slot \in ReaderSlots :
          /\ slot # [index |-> 0, sequence_number |-> 0]
          /\ \/ ReadWith(jjrecord(slot), {})
             \/ \E i \in Slots : ReadWith(jjrecord(slot), {i})
    /\ UNCHANGED <<R, storage, writer, writeRet, writeLog, writeCount, ringvars, regvars>>

ReadersNext ==
    \/ Read
    \/ ReadFailing
    \/ ReadFrom

SpecReaders == ReadInit /\ [][ReadersNext]_vars

----------------------------------------------------------------------------
(* Spec: the ring with its producer and its consumer thread *)

Init ==
    /\ SchemaUnused
    /\ RingInit
    /\ RecordUnused

Producer ==
    \/ \E op \in ProducerOps, n \in 0..MaxBulk : P_Begin(op, n)
    \/ P_LoadTail
    \/ P_Copy
    \/ P_StoreHead
    \/ P_WindowWrite
    \/ P_Commit
    \/ P_CommitStore

Consumer ==
    \/ \E op \in ConsumerOps, n \in 0..MaxBulk : C_Begin(op, n)
    \/ C_LoadHead
    \/ C_Copy
    \/ C_StoreTail
    \/ C_WindowRead
    \/ C_Commit
    \/ C_CommitStore

Next ==
    \/ Producer /\ UNCHANGED <<recvars, regvars, apivars>>
    \/ Consumer /\ UNCHANGED <<recvars, regvars, apivars>>

Spec == Init /\ [][Next]_vars

----------------------------------------------------------------------------
(* SpecApi: the ring API called from one thread at a time *)

\* jjring_::size_approx
size_approxPlain(h, t) == h + N - t

size_approx(h, t) == Masked(h + N - t)

\* jjring_::full
full(h, t) == Masked(h + 1) = t

\* jjring_::empty
empty(h, t) == h = t

ApiProducerOps == ProducerOps \cup {"overwrite"}

\* What the caller of a producer-side call sees of the step being taken.
ObserveP ==
    /\ logN' = logN
    /\ UNCHANGED <<cleared, obs>>
    /\ evicted' = IF prod.pc = "evict" THEN evicted + 1 ELSE evicted
    /\ prev' = IF prod.pc = "idle" THEN call ELSE prev
    /\ call' =
         CASE prod.pc = "idle" ->
                [NoCall EXCEPT !.side = "P", !.op = prod'.op, !.n = prod'.n,
                               !.head0 = head, !.tail0 = tail, !.buf0 = buf,
                               !.pushed0 = pushed]
           [] prod.pc = "load_tail" /\ prod.op = "acquire" ->
                LET w == write_acquire(prod.h, tail)
                IN  [call EXCEPT !.win = w.n, !.ptr = w.ptr,
                                 !.done = (prod'.pc = "idle")]
           [] prod.pc = "load_tail" /\ prod.op # "acquire" ->
                [call EXCEPT !.done = (prod'.pc = "idle")]
           [] prod.pc = "store" ->
                [call EXCEPT !.done = TRUE, !.ok = TRUE, !.count = prod.size]
           [] prod.pc = "commit_store" ->
                [call EXCEPT !.done = TRUE, !.count = prod.size]
           [] OTHER -> call

\* What the caller of a consumer-side call sees of the step being taken.
ObserveC ==
    /\ logN' = logN
    /\ UNCHANGED <<cleared, obs>>
    /\ evicted' = evicted
    /\ prev' = IF cons.pc = "idle" THEN call ELSE prev
    /\ call' =
         CASE cons.pc = "idle" ->
                [NoCall EXCEPT !.side = "C", !.op = cons'.op, !.n = cons'.n,
                               !.head0 = head, !.tail0 = tail, !.buf0 = buf,
                               !.pushed0 = pushed]
           [] cons.pc = "load_head" /\ cons.op = "acquire" ->
                LET w == read_acquire(cons.t, head)
                IN  [call EXCEPT !.win = w.n, !.ptr = w.ptr,
                                 !.done = (cons'.pc = "idle")]
           [] cons.pc = "load_head" /\ cons.op # "acquire" ->
                [call EXCEPT !.done = (cons'.pc = "idle")]
           [] cons.pc = "store" ->
                [call EXCEPT !.done = TRUE, !.ok = TRUE, !.count = cons.size,
                             !.got = cons.dst]
           [] cons.pc = "commit_store" ->
                [call EXCEPT !.done = TRUE, !.count = cons.size, !.got = cons.dst]
           [] OTHER -> call

\* The ring jjring<T, N> for N = 2, 4, .., empty, after c elements went
\* through it: both cursors at c, the slots below c holding the elements
\* (numbered -1, -2, ..) that were enqueued and dequeued.
ApiInit ==
    /\ SchemaUnused
    /\ RecordUnused
    /\ logN \in 1..LogN
    /\ \E c \in 0..(N - 1) :
          /\ head = c
          /\ tail = c
          /\ mem = Memory(c, c, {"T"})
          /\ buf = [k \in 0..(N - 1) |-> IF k < c THEN 0 - (k + 1) ELSE 0]
    /\ prod = Idle
    /\ cons = Idle
    /\ pushed = 0
    /\ popped = <<>>
    /\ call = NoCall
    /\ prev = NoCall
    /\ evicted = 0
    /\ cleared = 0
    /\ obs = NoObs

ApiProducer ==
    \/ \E op \in ApiProducerOps, n \in 0..MaxBulk : P_Begin(op, n)
    \/ P_LoadTail
    \/ P_Evict
    \/ P_Copy
    \/ P_StoreHead
    \/ P_WindowWrite
    \/ P_Commit
    \/ P_CommitStore

\* Calls do not overlap: a side starts and continues a call only while the
\* other side is between two calls.
ApiNext ==
    \/ cons.pc = "idle" /\ ApiProducer /\ ObserveP /\ UNCHANGED <<recvars, regvars>>
    \/ prod.pc = "idle" /\ Consumer /\ ObserveC /\ UNCHANGED <<recvars, regvars>>

SpecApi == ApiInit /\ [][ApiNext]_vars

----------------------------------------------------------------------------
(* SpecOverwrite: push_overwrite racing with pop *)

OverwriteProducer ==
    \/ P_Begin("overwrite", 0)
    \/ P_LoadTail
    \/ P_Evict
    \/ P_Copy
    \/ P_StoreHead

OverwriteConsumer ==
    \/ C_Begin("pop", 0)
    \/ C_LoadHead
    \/ C_Copy
    \/ C_StoreTail

OverwriteNext ==
    \/ /\ OverwriteProducer
       /\ evicted' = IF prod.pc = "evict" THEN evicted + 1 ELSE evicted
       /\ UNCHANGED <<recvars, regvars, logN, call, prev, cleared, obs>>
    \/ OverwriteConsumer /\ UNCHANGED <<recvars, regvars, apivars>>

SpecOverwrite == Init /\ [][OverwriteNext]_vars

----------------------------------------------------------------------------
(* SpecState: the calls of SpecApi and clear(), from one thread *)

\* The last clear() as its caller sees it: the ring when it was called, and
\* how many elements had been enqueued, handed out and evicted by then.
ClearCall ==
    [side |-> "none", op |-> "clear", head0 |-> head, tail0 |-> tail,
     buf0 |-> buf, pushed0 |-> pushed, popped0 |-> Len(popped),
     evicted0 |-> evicted]

\* jjring_::clear : both cursors back to 0; what was stored is dropped.
ClearHeadOnly ==
    /\ prod.pc = "idle"
    /\ cons.pc = "idle"
    /\ cleared < MaxCleared
    /\ head' = 0
    /\ tail' = tail
    /\ mem' = store_release(mem, "T", "head", 0)
    /\ cleared' = cleared + size_approx(head, tail)
    /\ call' = ClearCall
    /\ UNCHANGED <<buf, prod, cons, pushed, popped>>
    /\ UNCHANGED <<recvars, regvars, logN, prev, evicted, obs>>

Clear ==
    /\ prod.pc = "idle"
    /\ cons.pc = "idle"
    /\ cleared < MaxCleared
    /\ head' = 0
    /\ tail' = 0
    /\ mem' = store_release(store_release(mem, "T", "head", 0), "T", "tail", 0)
    /\ cleared' = cleared + size_approx(head, tail)
    /\ call' = ClearCall
    /\ UNCHANGED <<buf, prod, cons, pushed, popped>>
    /\ UNCHANGED <<recvars, regvars, logN, prev, evicted, obs>>

\* The calls of SpecApi, one at a time; only the evictions are counted and
\* only clear() is recorded in call.
StateNext ==
    \/ /\ cons.pc = "idle"
       /\ ApiProducer
       /\ evicted' = IF prod.pc = "evict" THEN evicted + 1 ELSE evicted
       /\ UNCHANGED <<recvars, regvars, logN, call, prev, cleared, obs>>
    \/ prod.pc = "idle" /\ Consumer /\ UNCHANGED <<recvars, regvars, apivars>>
    \/ Clear

\* the ring as constructed, for N = 2, 4, ..
StateInit == ApiInit /\ head = 0

SpecState == StateInit /\ [][StateNext]_vars

----------------------------------------------------------------------------
(* SpecSize: size_approx() called while push and pop run concurrently *)

SizeProducer ==
    /\ pushed < MaxObserved
    /\ \/ P_Begin("push", 0)
       \/ P_LoadTail
       \/ P_Copy
       \/ P_StoreHead

SizeConsumer ==
    \/ C_Begin("pop", 0)
    \/ C_LoadHead
    \/ C_Copy
    \/ C_StoreTail

\* While a size_approx() call is between its two loads, the thread making
\* it is followed together with the number of elements stored in the ring
\* (published by a store of head and not yet released by a store of tail)
\* at each instant.
TrackStored ==
    /\ obs' = IF obs.pc = "load_tail"
              THEN [obs EXCEPT !.seen = @ \cup {pushed' - Len(popped')}]
              ELSE obs
    /\ UNCHANGED <<recvars, regvars, logN, call, prev, evicted, cleared>>

\* size_approx: h = load_acquire(head).
S_LoadHead ==
    /\ obs.pc \in {"idle", "done"}
    /\ \E pos \in Readable("S", "head") :
          /\ obs' = [pc |-> "load_tail", h |-> mem.head[pos].val, ret |-> 0,
                     seen |-> {pushed - Len(popped)}]
          /\ mem' = load_acquire(mem, "S", "head", pos)
    /\ UNCHANGED <<head, tail, buf, prod, cons, pushed, popped>>
    /\ UNCHANGED <<recvars, regvars, logN, call, prev, evicted, cleared>>

\* size_approx: t = load_relaxed(tail); return (h + N - t) & mask.
S_LoadTail ==
    /\ obs.pc = "load_tail"
    /\ \E pos \in Readable("S", "tail") :
          /\ obs' = [obs EXCEPT !.pc = "done",
                                !.ret = size_approx(obs.h, mem.tail[pos].val)]
          /\ mem' = load_relaxed(mem, "S", "tail", pos)
    /\ UNCHANGED <<head, tail, buf, prod, cons, pushed, popped>>
    /\ UNCHANGED <<recvars, regvars, logN, call, prev, evicted, cleared>>

SizeNext ==
    \/ SizeProducer /\ TrackStored
    \/ SizeConsumer /\ TrackStored
    \/ S_LoadHead
    \/ S_LoadTail

\* the ring as constructed, with the thread that calls size_approx()
SizeInit ==
    /\ SchemaUnused
    /\ RecordUnused
    /\ logN = LogN
    /\ head = 0
    /\ tail = 0
    /\ mem = Memory(0, 0, {"P", "C", "S"})
    /\ buf = [k \in 0..(N - 1) |-> 0]
    /\ prod = Idle
    /\ cons = Idle
    /\ pushed = 0
    /\ popped = <<>>
    /\ call = NoCall
    /\ prev = NoCall
    /\ evicted = 0
    /\ cleared = 0
    /\ obs = NoObs

SpecSize == SizeInit /\ [][SizeNext]_vars

----------------------------------------------------------------------------
(* SpecStatus: full() and empty() called between the pushes and the pops *)

\* What a status call told a side, and what its next push or pop returned:
\* said is the answer of full() (producer) or empty() (consumer), until the
\* call that follows the next push or pop starts; ret what that push or pop
\* returned.
NoStatus == [said |-> "none", ret |-> "none"]

StatusInit ==
    /\ SchemaUnused
    /\ RecordUnused
    /\ logN \in 1..LogN
    /\ head = 0
    /\ tail = 0
    /\ mem = Memory(0, 0, {"P", "C"})
    /\ buf = [k \in 0..(N - 1) |-> 0]
    /\ prod = Idle
    /\ cons = Idle
    /\ pushed = 0
    /\ popped = <<>>
    /\ call = NoCall
    /\ prev = NoCall
    /\ evicted = 0
    /\ cleared = 0
    /\ obs = [P |-> NoStatus, C |-> NoStatus]

\* full(): h = load_relaxed(head).
P_FullLoadHead ==
    /\ prod.pc = "idle"
    /\ \E pos \in Readable("P", "head") :
          /\ prod' = [Idle EXCEPT !.pc = "full_load_tail", !.op = "full",
                                  !.h = mem.head[pos].val]
          /\ mem' = load_relaxed(mem, "P", "head", pos)
    /\ obs' = [obs EXCEPT !.P = NoStatus]
    /\ UNCHANGED <<head, tail, buf, cons, pushed, popped, evicted>>

\* full(): t = load_acquire(tail); return next == t.
P_FullLoadTail ==
    /\ prod.pc = "full_load_tail"
    /\ prod' = Idle
    /\ \E pos \in Readable("P", "tail") :
          /\ obs' = [obs EXCEPT !.P.said = Ret(full(prod.h, mem.tail[pos].val))]
          /\ mem' = load_acquire(mem, "P", "tail", pos)
    /\ UNCHANGED <<head, tail, buf, cons, pushed, popped, evicted>>

\* empty(): h = load_acquire(head).
C_EmptyLoadHead ==
    /\ cons.pc = "idle"
    /\ \E pos \in Readable("C", "head") :
          /\ cons' = [Idle EXCEPT !.pc = "empty_load_tail", !.op = "empty",
                                  !.h = mem.head[pos].val]
          /\ mem' = load_acquire(mem, "C", "head", pos)
    /\ obs' = [obs EXCEPT !.C = NoStatus]
    /\ UNCHANGED <<head, tail, buf, prod, pushed, popped, evicted>>

\* empty(): t = load_relaxed(tail); return h == t.
C_EmptyLoadTail ==
    /\ cons.pc = "empty_load_tail"
    /\ cons' = Idle
    /\ \E pos \in Readable("C", "tail") :
          /\ obs' = [obs EXCEPT !.C.said = Ret(empty(cons.h, mem.tail[pos].val))]
          /\ mem' = load_relaxed(mem, "C", "tail", pos)
    /\ UNCHANGED <<head, tail, buf, prod, pushed, popped, evicted>>

\* A step of push or push_overwrite, as the producer that called full()
\* sees it: the push that follows full() returns false when it finds the
\* buffer full and true at its store of head; any other call that starts
\* ends the prediction.
StatusPush ==
    /\ pushed < MaxObserved
    /\ \/ \E op \in {"push", "overwrite"} : P_Begin(op, 0)
       \/ P_LoadTail
       \/ P_Evict
       \/ P_Copy
       \/ P_StoreHead
    /\ evicted' = IF prod.pc = "evict" THEN evicted + 1 ELSE evicted
    /\ obs' = [obs EXCEPT !.P =
                 IF prod.pc = "idle"
                 THEN IF prod'.op = "push" /\ obs.P.ret = "none" THEN @ ELSE NoStatus
                 ELSE IF prod.op # "push" THEN @
                 ELSE IF prod.pc = "load_tail" /\ prod'.pc = "idle"
                      THEN [@ EXCEPT !.ret = "false"]
                 ELSE IF prod.pc = "store" THEN [@ EXCEPT !.ret = "true"]
                 ELSE @]

\* A step of pop, as the consumer that called empty() sees it.
StatusPop ==
    /\ \/ C_Begin("pop", 0)
       \/ C_LoadHead
       \/ C_Copy
       \/ C_StoreTail
    /\ evicted' = evicted
    /\ obs' = [obs EXCEPT !.C =
                 IF cons.pc = "idle"
                 THEN IF obs.C.ret = "none" THEN @ ELSE NoStatus
                 ELSE IF cons.pc = "load_head" /\ cons'.pc = "idle"
                      THEN [@ EXCEPT !.ret = "false"]
                 ELSE IF cons.pc = "store" THEN [@ EXCEPT !.ret = "true"]
                 ELSE @]

StatusNext ==
    \/ StatusPush /\ UNCHANGED <<recvars, regvars, logN, call, prev, cleared>>
    \/ StatusPop /\ UNCHANGED <<recvars, regvars, logN, call, prev, cleared>>
    \/ P_FullLoadHead /\ UNCHANGED <<recvars, regvars, logN, call, prev, cleared>>
    \/ P_FullLoadTail /\ UNCHANGED <<recvars, regvars, logN, call, prev, cleared>>
    \/ C_EmptyLoadHead /\ UNCHANGED <<recvars, regvars, logN, call, prev, cleared>>
    \/ C_EmptyLoadTail /\ UNCHANGED <<recvars, regvars, logN, call, prev, cleared>>

SpecStatus == StatusInit /\ [][StatusNext]_vars

----------------------------------------------------------------------------
(* SCHEMA (jjreg.hpp): metas, and a schema as the ordered list of its fields *)

\* The metas are records; kind names the meta type. A string<N> and an
\* array<Meta, N> keep N in the field n; a list keeps its Capacity, with the
\* default SizeType uint8_t (one byte of length before the items).
jjreg_bool(default_value) == [kind |-> "bool", default_value |-> default_value]

jjreg_u8(min, max, default_value) ==
    [kind |-> "u8", min |-> min, max |-> max, default_value |-> default_value]

jjreg_i8(min, max, default_value) ==
    [kind |-> "i8", min |-> min, max |-> max, default_value |-> default_value]

\* size is the number of enumerators
jjreg_e8(size, default_value) ==
    [kind |-> "e8", size |-> size, default_value |-> default_value]

\* default_value is a C string, given by its characters (the terminator follows)
jjreg_string(n, default_value) ==
    [kind |-> "string", n |-> n, default_value |-> default_value]

jjreg_array(meta, n) == [kind |-> "array", meta |-> meta, n |-> n]

jjreg_list(meta, capacity) == [kind |-> "list", meta |-> meta, capacity |-> capacity]

jjreg_nested(sch) == [kind |-> "jjreg", schema |-> sch]

\* JJREG(schema_name, max_size, LIST): the fields in declaration order and the
\* declared capacity
JJREG(max_size, fields) == [fields |-> fields, capacity |-> max_size]

Scalars == {"bool", "u8", "i8", "e8"}

RECURSIVE field_size(_)
RECURSIVE jjreg_offset(_, _)

jjreg_offsetOfIndex(sch, index) == index

\* The byte offset of field index (0-based) of the schema: the sizes of the
\* fields before it, added up.
jjreg_offset(sch, index) ==
    IF index = 0 THEN 0
    ELSE jjreg_offset(sch, index - 1) + field_size(sch.fields[index])

\* enum { size = 0 LIST(JJREG__SIZE_SUM) }
schema_size(sch) == jjreg_offset(sch, Len(sch.fields))

nested_field_sizeExact(sch) == schema_size(sch)

\* jjreg_jjreg<Schema>::field_size
nested_field_size(sch) == sch.capacity

field_size(meta) ==
    CASE meta.kind \in Scalars -> 1
      [] meta.kind = "string" -> meta.n
      [] meta.kind = "array" -> field_size(meta.meta) * meta.n
      [] meta.kind = "list" -> 1 + field_size(meta.meta) * meta.capacity
      [] meta.kind = "jjreg" -> nested_field_size(meta.schema)

\* The buffer is the sequence of its bytes; ptr + i of the code is position
\* i + 1 of the sequence.
Peek(b, i) == b[i + 1]

\* (a position past the end of the buffer is not part of the model's memory)
Poke(b, i, x) == IF i < Len(b) THEN [b EXCEPT ![i + 1] = x] ELSE b

clampedNoMax(meta, v) ==
    CASE meta.kind = "e8" -> v
      [] OTHER -> IF v < meta.min THEN meta.min ELSE v

\* jjreg_u8::clamped, jjreg_i8::clamped, jjreg_e8::clamped
clamped(meta, v) ==
    CASE meta.kind = "e8" ->
            IF v >= meta.size THEN (meta.size - 1) % 256 ELSE v
      [] OTHER ->
            IF v < meta.min THEN meta.min
            ELSE IF v > meta.max THEN meta.max
            ELSE v

\* Meta::write(v, out): the byte stored for v
write(meta, v, b, ptr) ==
    CASE meta.kind = "bool" -> Poke(b, ptr, IF v THEN 1 ELSE 0)
      [] meta.kind = "i8" -> Poke(b, ptr, clamped(meta, v) % 256)
      [] OTHER -> Poke(b, ptr, clamped(meta, v))

\* Meta::read(in): the value of the stored byte
meta_read(meta, b, ptr) ==
    CASE meta.kind = "bool" -> Peek(b, ptr) # 0
      [] meta.kind = "i8" ->
            IF Peek(b, ptr) >= 128 THEN Peek(b, ptr) - 256 ELSE Peek(b, ptr)
      [] OTHER -> Peek(b, ptr)

\* in[i] of a C string given by its characters
CharAt(in, i) == IF i < Len(in) THEN in[i + 1] ELSE 0

\* the for loop of jjreg_proxy<jjreg_string<N>>::set, from position i on:
\* the buffer and the position it stops at
RECURSIVE string_copy(_, _, _, _, _)
string_copy(b, ptr, n, in, i) ==
    IF i < n - 1 /\ CharAt(in, i) # 0
    THEN string_copy(Poke(b, ptr + i, CharAt(in, i)), ptr, n, in, i + 1)
    ELSE [b |-> b, i |-> i]

string_setNoRoom(b, ptr, n, in) ==
    LET r == string_copy(b, ptr, n + 1, in, 0) IN Poke(r.b, ptr + r.i, 0)

\* jjreg_proxy<jjreg_string<N>>::set
string_set(b, ptr, n, in) ==
    LET r == string_copy(b, ptr, n, in, 0) IN Poke(r.b, ptr + r.i, 0)

\* the C string starting at ptr
RECURSIVE c_str(_, _)
c_str(b, ptr) ==
    IF Peek(b, ptr) = 0 THEN <<>> ELSE <<Peek(b, ptr)>> \o c_str(b, ptr + 1)

\* jjreg_proxy<jjreg_string<N>>::get: the buffer afterwards and the string
\* the returned pointer designates
string_get(b, ptr, n) ==
    LET forced == Poke(b, ptr + n - 1, 0)
    IN  [b |-> forced, ret |-> c_str(forced, ptr)]

\* set(v) through the proxy of a scalar or of a string
proxy_set(meta, v, b, ptr) ==
    IF meta.kind = "string" THEN string_set(b, ptr, meta.n, v)
    ELSE write(meta, v, b, ptr)

\* get() through the proxy of a scalar
proxy_get(meta, b, ptr) == meta_read(meta, b, ptr)

\* jjreg_proxy<jjreg_array<Meta, N>>::operator[]
element_ptr(meta, ptr, index) == ptr + index * field_size(meta.meta)

\* the for loop of jjreg_proxy<jjreg_array<Meta, N>>::set, from index i on
RECURSIVE array_set_loop(_, _, _, _, _, _)
array_set_loop(meta, in, size, b, ptr, i) ==
    IF i < size /\ i < meta.n
    THEN array_set_loop(meta, in, size,
            proxy_set(meta.meta, in[i + 1], b, element_ptr(meta, ptr, i)),
            ptr, i + 1)
    ELSE b

RECURSIVE array_set_unbounded(_, _, _, _, _, _)
array_set_unbounded(meta, in, size, b, ptr, i) ==
    IF i < size
    THEN array_set_unbounded(meta, in, size,
            proxy_set(meta.meta, in[i + 1], b, element_ptr(meta, ptr, i)),
            ptr, i + 1)
    ELSE b

array_setUnbounded(meta, in, size, b, ptr) ==
    array_set_unbounded(meta, in, size, b, ptr, 0)

\* jjreg_proxy<jjreg_array<Meta, N>>::set(in, size)
array_set(meta, in, size, b, ptr) == array_set_loop(meta, in, size, b, ptr, 0)

\* jjreg_proxy<jjreg_list>::size
list_size(b, ptr) == Peek(b, ptr)

\* jjreg_proxy<jjreg_list>::item_ptr
item_ptr(meta, ptr, index) == ptr + 1 + index * field_size(meta.meta)

push_backOneMore(meta, v, b, ptr) ==
    IF Peek(b, ptr) > meta.capacity
    THEN [b |-> b, ret |-> FALSE]
    ELSE LET stored == proxy_set(meta.meta, v, b, item_ptr(meta, ptr, Peek(b, ptr)))
         IN  [b |-> Poke(stored, ptr, (Peek(stored, ptr) + 1) % 256), ret |-> TRUE]

\* jjreg_proxy<jjreg_list>::push_back: the buffer afterwards and the result
push_back(meta, v, b, ptr) ==
    LET current_size == Peek(b, ptr)
    IN  IF current_size >= meta.capacity
        THEN [b |-> b, ret |-> FALSE]
        ELSE LET stored == proxy_set(meta.meta, v, b,
                                     item_ptr(meta, ptr, current_size))
             IN  [b |-> Poke(stored, ptr, (Peek(stored, ptr) + 1) % 256),
                  ret |-> TRUE]

RECURSIVE proxy_reset(_, _, _)
RECURSIVE array_reset(_, _, _, _)
RECURSIVE view_reset(_, _, _, _)

\* the for loop of jjreg_proxy<jjreg_array<Meta, N>>::reset, from index i on
array_reset(meta, b, ptr, i) ==
    IF i < meta.n
    THEN array_reset(meta, proxy_reset(meta.meta, b, element_ptr(meta, ptr, i)),
                     ptr, i + 1)
    ELSE b

\* view_t::reset: the reset of every field in declaration order, from field
\* i on
view_reset(sch, b, ptr, i) ==
    IF i < Len(sch.fields)
    THEN view_reset(sch,
            proxy_reset(sch.fields[i + 1], b, ptr + jjreg_offset(sch, i)),
            ptr, i + 1)
    ELSE b

\* reset() through the proxy of a field of each kind
proxy_reset(meta, b, ptr) ==
    CASE meta.kind = "string" -> string_set(b, ptr, meta.n, meta.default_value)
      [] meta.kind = "array" -> array_reset(meta, b, ptr, 0)
      [] meta.kind = "list" -> Poke(b, ptr, 0)
      [] meta.kind = "jjreg" -> view_reset(meta.schema, b, ptr, 0)
      [] OTHER -> write(meta, meta.default_value, b, ptr)

----------------------------------------------------------------------------
(* The proxies of a view *)

\* A proxy: its meta and the offset of its first byte in the buffer (ptr).
\* The model also keeps how the proxy was obtained: as field index of a view
\* at offset view (fields: the fields of that view's schema), as item index
\* of the list at offset list, or else as element index of an array; view
\* and list are -1 when they do not apply.
RECURSIVE Proxies(_, _, _)
RECURSIVE FieldProxies(_, _, _)
RECURSIVE ElementProxies(_, _, _, _, _)

\* JJREG__INIT_VIEW: the proxy of each field of a view at ptr, from field i
\* on, followed by the proxies reached through them
FieldProxies(sch, ptr, i) ==
    IF i < Len(sch.fields)
    THEN Proxies(sch.fields[i + 1], ptr + jjreg_offset(sch, i),
                 [list |-> -1, view |-> ptr, index |-> i, fields |-> sch.fields])
            \o FieldProxies(sch, ptr, i + 1)
    ELSE <<>>

\* operator[] of an array or a list: the proxies of the items from index i on,
\* the first item being at ptr
ElementProxies(meta, ptr, count, list, i) ==
    IF i < count
    THEN Proxies(meta, ptr + i * field_size(meta),
                 [list |-> list, view |-> -1, index |-> i, fields |-> <<>>])
            \o ElementProxies(meta, ptr, count, list, i + 1)
    ELSE <<>>

Proxies(meta, ptr, from) ==
    <<[meta |-> meta, ptr |-> ptr, list |-> from.list, view |-> from.view,
       index |-> from.index, fields |-> from.fields]>> \o
    CASE meta.kind = "array" ->
            ElementProxies(meta.meta, element_ptr(meta, ptr, 0), meta.n, -1, 0)
      [] meta.kind = "list" ->
            ElementProxies(meta.meta, item_ptr(meta, ptr, 0), meta.capacity, ptr, 0)
      [] meta.kind = "jjreg" -> FieldProxies(meta.schema, ptr, 0)
      [] OTHER -> <<>>

----------------------------------------------------------------------------
(* The schemas declared in jjreg.test.cpp that the model instantiates *)

jjreg_clamp_mode == jjreg_e8(3, 1)

jjreg_clamp ==
    JJREG(3, <<jjreg_u8(1, 5, 3), jjreg_i8(-3, 3, 0), jjreg_clamp_mode>>)

\* title: "xy"
jjreg_simple_schema ==
    JJREG(10, <<jjreg_u8(0, 10, 5),
                jjreg_string(4, <<120, 121>>),
                jjreg_list(jjreg_u8(0, 3, 1), 2)>>)

jjreg_scores == JJREG(128, <<jjreg_list(jjreg_u8(0, 10, 1), 2)>>)

jjreg_array_schema == JJREG(3, <<jjreg_array(jjreg_u8(0, 9, 5), 3)>>)

jjreg_padding_schema == JJREG(16, <<jjreg_u8(0, 9, 2), jjreg_u8(0, 9, 7)>>)

\* labels: "def"
jjreg_mixed_str_array ==
    JJREG(32, <<jjreg_array(jjreg_string(5, <<100, 101, 102>>), 3)>>)

jjreg_small_field == JJREG(3, <<jjreg_u8(1, 9, 4)>>)

jjreg_two_nested ==
    JJREG(10, <<jjreg_nested(jjreg_small_field),
                jjreg_nested(jjreg_small_field),
                jjreg_u8(0, 5, 2)>>)

\* label: "point"
jjreg_superschema ==
    JJREG(140, <<jjreg_u8(1, 255, 0),
                 jjreg_nested(jjreg_scores),
                 jjreg_string(6, <<112, 111, 105, 110, 116>>)>>)

\* header: "jjkitv1", data2: "ab"
jjreg_supersuperschema ==
    JJREG(200, <<jjreg_string(8, <<106, 106, 107, 105, 116, 118, 49>>),
                 jjreg_nested(jjreg_superschema),
                 jjreg_array(jjreg_string(4, <<97, 98>>), 2),
                 jjreg_u8(0, 255, 42)>>)

\* a schema of two jjreg_bool fields, which no schema of the tests has
jjreg_switches == JJREG(3, <<jjreg_bool(TRUE), jjreg_bool(FALSE)>>)

SchemaNames ==
    <<"jjreg_clamp", "jjreg_simple_schema", "jjreg_array_schema",
      "jjreg_padding_schema", "jjreg_mixed_str_array", "jjreg_two_nested",
      "jjreg_switches", "jjreg_superschema", "jjreg_supersuperschema">>

Declarations ==
    <<jjreg_clamp, jjreg_simple_schema, jjreg_array_schema,
      jjreg_padding_schema, jjreg_mixed_str_array, jjreg_two_nested,
      jjreg_switches, jjreg_superschema, jjreg_supersuperschema>>

\* the schemas that nest a schema in a nested schema
DeepSchemas == {"jjreg_superschema", "jjreg_supersuperschema"}

Schemas == {SchemaNames[j] : j \in 1..Len(SchemaNames)}

IndexOf(name) == CHOOSE j \in 1..Len(SchemaNames) : SchemaNames[j] = name

Declared(name) == Declarations[IndexOf(name)]

\* the proxies reached through a view of each schema placed at offset 0
Views == <<>> \o [j \in 1..Len(Declarations) |-> FieldProxies(Declarations[j], 0, 0)]

\* the schema of the view, and the proxies reached through the view
Root == Declared(schema)

View == Views[IndexOf(schema)]

----------------------------------------------------------------------------
(* SpecSchema: operations through a view over the caller's buffer *)

\* the bytes the caller fills the buffer with before making the view
Fills == {0, 170}

\* the values the callers set: below, within and above the ranges declared
InputsU8 == <<0, 4, 255>>

InputsI8 == <<-128, 2, 127>>

InputsE8 == <<0, 3, 255>>

InputsBool == <<TRUE, FALSE>>

\* "", "hi", "1234567890"
InputsString == <<<< >>, <<104, 105>>, <<49, 50, 51, 52, 53, 54, 55, 56, 57, 48>>>>

Inputs(meta) ==
    CASE meta.kind = "u8" -> InputsU8
      [] meta.kind = "i8" -> InputsI8
      [] meta.kind = "e8" -> InputsE8
      [] meta.kind = "bool" -> InputsBool
      [] meta.kind = "string" -> InputsString
      [] OTHER -> <<>>

InputSet(meta) == {Inputs(meta)[j] : j \in 1..Len(Inputs(meta))}

\* the source arrays handed to the bulk set of an array: size items, the
\* inputs of the item kind taken in turn from the one of index first
Source(meta, size, first) ==
    [j \in 1..size |-> Inputs(meta.meta)[((first + j) % Len(Inputs(meta.meta))) + 1]]

\* the operations through the view followed in one behaviour
Budget == IF schema \in DeepSchemas THEN MaxDeepOps ELSE MaxOps

\* the proxy is one the caller may use: an item of a list is below its size
InRange(p) == IF p.list = -1 THEN TRUE ELSE p.index < list_size(regdata, p.list)

SchemaInit ==
    /\ RingUnused
    /\ RecordUnused
    /\ schema \in Schemas
    /\ \/ \* a view over a buffer the caller filled, longer than the capacity
          /\ schema \notin DeepSchemas
          /\ fill \in Fills
          /\ regdata = [i \in 1..(Root.capacity + MaxSlack) |-> fill]
       \/ \* a buffer_t: its data array of capacity bytes is not initialised,
          \* the constructor calls reset(); what reset() does not write
          \* stays indeterminate
          /\ fill = Indeterminate
          /\ regdata = view_reset(Root, [i \in 1..Root.capacity |-> Indeterminate], 0, 0)
    /\ ops = 0
    /\ last = NoLast

\* One operation made through the view: the buffer it leaves and what the
\* caller saw of it.
Step(b, op, k, v, n, ret) ==
    /\ ops < Budget
    /\ ops' = ops + 1
    /\ regdata' = b
    /\ last' = [op |-> op, k |-> k, v |-> v, n |-> n, before |-> regdata,
                ret |-> ret]
    /\ UNCHANGED <<recvars, ringvars, schema, fill>>

\* the proxies of the view the caller may use now, by their index in View
Usable == {k \in 1..Len(View) : InRange(View[k])}

\* view.reset()
Reset ==
    /\ schema \in Schemas
    /\ Step(view_reset(Root, regdata, 0, 0), "reset", 0, 0, 0, "none")

\* reset() through one proxy
ProxyReset ==
    \E k \in Usable :
        LET p == View[k]
        IN  Step(proxy_reset(p.meta, regdata, p.ptr), "proxy_reset", k, 0, 0, "none")

\* set(v), or the assignment of v, through the proxy of a scalar
Set ==
    \E k \in Usable :
        LET p == View[k]
        IN  /\ p.meta.kind \in Scalars
            /\ \E v \in InputSet(p.meta) :
                  Step(proxy_set(p.meta, v, regdata, p.ptr), "set", k, v, 0, "none")

\* set(in), or the assignment of in, through the proxy of a string
StringSet ==
    \E k \in Usable :
        LET p == View[k]
        IN  /\ p.meta.kind = "string"
            /\ \E in \in InputSet(p.meta) :
                  Step(proxy_set(p.meta, in, regdata, p.ptr),
                       "string_set", k, in, 0, "none")

\* get() through the proxy of a string
StringGet ==
    \E k \in Usable :
        LET p == View[k]
            r == string_get(regdata, p.ptr, p.meta.n)
        IN  /\ p.meta.kind = "string"
            /\ Step(r.b, "string_get", k, r.ret, 0, "none")

\* set(in, size) through the proxy of an array
ArraySet ==
    \E k \in Usable :
        LET p == View[k]
        IN  /\ p.meta.kind = "array"
            /\ \E size \in 0..(p.meta.n + MaxExcess), first \in 0..1 :
                  LET in == Source(p.meta, size, first)
                  IN  Step(array_set(p.meta, in, size, regdata, p.ptr),
                           "array_set", k, in, size, "none")

\* push_back(v) through the proxy of a list
PushBack ==
    \E k \in Usable :
        LET p == View[k]
        IN  /\ p.meta.kind = "list"
            /\ \E v \in InputSet(p.meta.meta) :
                  LET r == push_back(p.meta, v, regdata, p.ptr)
                  IN  Step(r.b, "push_back", k, v, 0, Ret(r.ret))

SchemaNext ==
    \/ Reset
    \/ ProxyReset
    \/ Set
    \/ StringSet
    \/ StringGet
    \/ ArraySet
    \/ PushBack

SpecSchema == SchemaInit /\ [][SchemaNext]_vars

----------------------------------------------------------------------------
(* RING claims, checked under Spec *)

\* what the consumer has been handed or has copied out so far
Received == popped \o cons.dst

\* C1: under every interleaving of the loads, slot copies and stores of the
\* producer and the consumer, the values handed to the consumer are a prefix
\* of the values enqueued (1, 2, 3, ... in order): nothing is lost,
\* duplicated or reordered.
C1_FifoPrefix ==
    /\ Len(Received) <= pushed
    /\ \A k \in 1..Len(Received) : Received[k] = k

\* C1 witness: more values than the ring has usable slots have gone through,
\* and both threads are in the middle of a slot copy.
C1_Witness ==
    /\ Len(popped) >= N - 1
    /\ prod.pc = "copy"
    /\ cons.pc = "copy"

\* the slots the producer may currently be writing
ProducerSlots ==
    CASE prod.pc \in {"copy", "store"} ->
            {bulk_slot(prod.h, prod.size, j) : j \in 0..(prod.size - 1)}
      [] prod.pc = "window" -> {prod.h + j : j \in 0..(prod.n - 1)}
      [] prod.pc = "commit_store" -> {Masked(prod.h + j) : j \in 0..(prod.size - 1)}
      [] OTHER -> {}

\* the slots the consumer may currently be reading
ConsumerSlots ==
    CASE cons.pc \in {"copy", "store"} ->
            {bulk_slot(cons.t, cons.size, j) : j \in 0..(cons.size - 1)}
      [] cons.pc = "window" -> {cons.t + j : j \in 0..(cons.n - 1)}
      [] cons.pc = "commit_store" -> {Masked(cons.t + j) : j \in 0..(cons.size - 1)}
      [] OTHER -> {}

\* C2: the slots the producer is copying into are disjoint from the slots
\* the consumer is copying out of, and whatever lies between tail and head
\* (what the consumer can see) is completely written: the slots tail..head
\* hold exactly the enqueued values not handed out yet, and the range the
\* consumer has loaded never reaches beyond the published elements.
C2_DisjointPublished ==
    /\ ProducerSlots \cap ConsumerSlots = {}
    /\ (head + N - tail) % N = pushed - Len(popped)
    /\ \A j \in 0..(pushed - Len(popped) - 1) :
          buf[(tail + j) % N] = Len(popped) + j + 1
    /\ cons.pc \in {"copy", "store", "window"} =>
          /\ (cons.h + N - cons.t) % N <= pushed - Len(popped)
          /\ ConsumerSlots \subseteq
                {(tail + j) % N : j \in 0..(pushed - Len(popped) - 1)}

\* C2 witness: a bulk push that splits at the wrap is half copied while the
\* consumer is copying elements out.
C2_Witness ==
    /\ prod.op = "bulk"
    /\ prod.pc = "copy"
    /\ prod.i >= 1
    /\ prod.h + prod.size > N
    /\ cons.pc = "copy"

----------------------------------------------------------------------------
(* RECORD claims *)

LastWrite == writeLog[Len(writeLog)]
AllWritesOk == \A k \in 1..Len(writeLog) : writeLog[k].outcome = "ok"
\* a read() has been made and every read_fn of it succeeded
ReadDone == readRet # "none" /\ readFailing = {}
ImagePayload(image) == Bytes(image, jjrecord_header_size, Size)
ImageValid(image) == crc_ok(image) /\ type_ok(image)

\* C3 (as claimed), under SpecRecord: after k >= 1 write_next calls whose
\* writes all succeed on erased storage, read() on a default-constructed
\* reader returns true with the payload of the most recent write.
C3_RoundTrip ==
    (ReadDone /\ Len(writeLog) >= 1 /\ AllWritesOk) =>
        /\ readRet = "true"
        /\ payload(reader) = ImagePayload(LastWrite.data)

\* the latest successful write whose slot the last (torn) write did not hit
SurvivingWrites ==
    {k \in 1..(Len(writeLog) - 1) :
        /\ writeLog[k].outcome = "ok"
        /\ writeLog[k].index # LastWrite.index
        /\ storage[writeLog[k].index] = writeLog[k].data}

NewestSurviving == CHOOSE k \in SurvivingWrites : \A j \in SurvivingWrites : j <= k

\* C4 (as claimed), under SpecRecord: when a write_next leaves its slot torn
\* (CRC mismatch) while an earlier completely written slot is in storage,
\* read() on a default-constructed reader returns true with the payload of
\* the most recently completely written slot.
C4_TornWrite ==
    (/\ ReadDone
     /\ Len(writeLog) >= 2
     /\ LastWrite.outcome = "torn"
     /\ ~crc_ok(storage[LastWrite.index])
     /\ SurvivingWrites # {}) =>
        /\ readRet = "true"
        /\ payload(reader) = ImagePayload(writeLog[NewestSurviving].data)

\* slot 0 and slot 1 hold valid records, every other slot is invalid
TwoValidSlots ==
    /\ R >= 2
    /\ ImageValid(storage[0])
    /\ ImageValid(storage[1])
    /\ \A i \in Slots : i >= 2 => ~ImageValid(storage[i])

\* C5 (as claimed), under SpecRead: with slot 0 valid at sequence s and
\* slot 1 valid at sequence s+R (as a byte) read() yields slot 0's payload;
\* with slot 1 at s+R-1 it yields slot 1's payload.
C5_WindowRejection ==
    (ReadDone /\ TwoValidSlots) =>
        /\ storage[1][4] = (storage[0][4] + R) % 256 =>
              /\ readRet = "true"
              /\ payload(reader) = ImagePayload(storage[0])
        /\ storage[1][4] = (storage[0][4] + R - 1) % 256 =>
              /\ readRet = "true"
              /\ payload(reader) = ImagePayload(storage[1])

\* the slot read_fn first failed on
FirstFailing == CHOOSE i \in readFailing : \A j \in readFailing : i <= j

\* C6, under SpecRead: when read_fn fails at slot i, read() returns false,
\* even if an earlier slot was accepted, and read_fn was invoked for the
\* slots 0..i and for no slot after i.
C6_ReadIoFailure ==
    (readRet # "none" /\ readFailing # {}) =>
        /\ readRet = "false"
        /\ readCalls = [k \in 1..(FirstFailing + 1) |-> k - 1]

\* C6 witness: read_fn failed after an earlier slot had been accepted.
C6_Witness ==
    /\ readRet # "none"
    /\ readFailing # {}
    /\ FirstFailing < R - 1
    /\ \E k \in 1..Len(readSteps) : readSteps[k].ok

\* the read_slot calls of the last read() that accepted their slot
AcceptedSteps == {k \in 1..Len(readSteps) : readSteps[k].ok}
LastAccepted == CHOOSE k \in AcceptedSteps : \A j \in AcceptedSteps : j <= k

\* C7, under SpecRead: when every read_fn succeeds, read() returns true iff
\* some slot was accepted; a slot failing the CRC or type check is visited,
\* changes neither payload nor current_slot, and the sweep goes on over all
\* R slots; on success payload and current_slot are those of the last
\* accepted slot, and no valid slot of higher index has the same sequence
\* number as the adopted one.
C7_ReadOutcome ==
    ReadDone =>
        /\ readRet = Ret(AcceptedSteps # {})
        /\ readCalls = [k \in 1..R |-> k - 1]
        /\ Len(readSteps) = R
        /\ \A k \in 1..Len(readSteps) :
              /\ readSteps[k].index = k - 1
              /\ ~ImageValid(storage[k - 1]) =>
                    /\ ~readSteps[k].ok
                    /\ readSteps[k].after = readSteps[k].before
        /\ readRet = "true" =>
              LET i == readSteps[LastAccepted].index
              IN  /\ payload(reader) = ImagePayload(storage[i])
                  /\ reader.slot = [index |-> i, sequence_number |-> storage[i][4]]
                  /\ \A j \in Slots :
                        (j > i /\ ImageValid(storage[j])) =>
                            storage[j][4] # reader.slot.sequence_number
        /\ readRet = "false" => reader = readInit

\* C7 witness: two valid slots tie on the sequence number with an invalid
\* slot between them, and the later one was adopted.
C7_Witness ==
    /\ ReadDone
    /\ R >= 3
    /\ ImageValid(storage[0])
    /\ ~ImageValid(storage[1])
    /\ ImageValid(storage[2])
    /\ storage[0][4] = storage[2][4]
    /\ readRet = "true"
    /\ reader.slot.index = 2

\* C8 (as claimed), under SpecRecord: the sequence byte advances modulo 255:
\* write_next never writes the byte 255, and the write after 254 carries 0.
C8_SequenceMod255 ==
    \A k \in 1..Len(writeLog) :
        /\ writeLog[k].data[4] # 255
        /\ writeLog[k].from.sequence_number = 254 => writeLog[k].data[4] = 0

\* C8 (amended), under SpecRecord: each write_next advances the sequence
\* number by one modulo 256: the write after 254 carries 255 and the write
\* after 255 carries 0.
C8_SequenceMod256 ==
    \A k \in 1..Len(writeLog) :
        /\ writeLog[k].data[4] = (writeLog[k].from.sequence_number + 1) % 256
        /\ writeLog[k].from.sequence_number = 254 => writeLog[k].data[4] = 255
        /\ writeLog[k].from.sequence_number = 255 => writeLog[k].data[4] = 0
        /\ k > 1 => writeLog[k].from.sequence_number = writeLog[k - 1].data[4]

\* C8 witness: consecutive writes carried 255 and then 0.
C8_Witness ==
    \E k \in 1..(Len(writeLog) - 1) :
        /\ writeLog[k].from.sequence_number = 254
        /\ writeLog[k].data[4] = 255
        /\ writeLog[k + 1].data[4] = 0

\* C9, under SpecRecord: every write_next targets slot (previous index + 1)
\* mod R, so any R consecutive calls invoke write_fn once on each of the
\* slots 0..R-1, in cyclic order, the sequence byte going up by one (as a
\* byte) from each call to the next.
C9_Rotation ==
    /\ \A k \in 1..Len(writeLog) :
          /\ writeLog[k].index = (writeLog[k].from.index + 1) % R
          /\ k > 1 =>
                /\ writeLog[k].index = (writeLog[k - 1].index + 1) % R
                /\ writeLog[k].data[4] = (writeLog[k - 1].data[4] + 1) % 256
    /\ \A k \in 1..Len(writeLog) :
          k + R - 1 <= Len(writeLog) =>
              /\ {writeLog[j].index : j \in k..(k + R - 1)} = Slots
              /\ \A i, j \in k..(k + R - 1) :
                    i # j => writeLog[i].index # writeLog[j].index

\* C9 witness: R = 3 calls from a cursor that did not start at slot 0 have
\* gone round the slots.
C9_Witness ==
    /\ R >= 3
    /\ Len(writeLog) >= R
    /\ writeLog[1].from.index = 1
    /\ writeLog[1].index = 2
    /\ writeLog[2].index = 0

\* C10, under SpecRecord: each write_next invokes write_fn exactly once, on
\* the advanced slot index, with a buffer whose CRC field matches bytes
\* [2..size), and returns the boolean write_fn returned.
C10_WriteNext ==
    /\ Len(writeLog) = writeCount
    /\ writeCount >= 1 =>
          /\ LastWrite.index = writer.slot.index
          /\ LastWrite.index = (LastWrite.from.index + 1) % R
          /\ LastWrite.data[1] + (256 * LastWrite.data[2])
                = jjrecord_crc16(Bytes(LastWrite.data, 2, Size))
          /\ LastWrite.data[3] = Type
          /\ writeRet = Ret(LastWrite.ret)
          /\ LastWrite.ret = (LastWrite.outcome # "fail")

\* C10 witness: a write_next whose write_fn failed has returned false.
C10_Witness ==
    /\ writeCount >= 2
    /\ LastWrite.outcome = "fail"
    /\ writeRet = "false"


\* b follows a in the writer's numbering: a + 1 as a byte, or 0 after 254
\* for a numbering that skips 255
WrapSuccessor(a, b) == b = (a + 1) % 256 \/ (a = 254 /\ b = 0)

\* slots 0..R-1 all hold valid records, numbered consecutively in slot
\* order, the numbering passing the end of the range on the way
ConsecutiveAcrossWrap ==
    /\ R >= 2
    /\ \A i \in Slots : ImageValid(storage[i])
    /\ \A i \in 1..(R - 1) : WrapSuccessor(storage[i - 1][4], storage[i][4])
    /\ \E i \in 1..(R - 1) : storage[i][4] < storage[i - 1][4]

\* C11, under SpecRead: when the slots 0..R-1 hold valid records whose
\* sequence numbers are consecutive and cross the end of the range
\* (.., 254, 0 or .., 254, 255, 0), read() accepts every slot and ends with
\* the payload and current_slot of the last slot.
C11_WrapAround ==
    (ReadDone /\ ConsecutiveAcrossWrap) =>
        /\ readRet = "true"
        /\ Len(readSteps) = R
        /\ \A k \in 1..Len(readSteps) : readSteps[k].ok
        /\ reader.slot = [index |-> R - 1, sequence_number |-> storage[R - 1][4]]
        /\ payload(reader) = ImagePayload(storage[R - 1])

\* C11 witness: the slots hold 254, 255, 0 and the read adopted slot 2.
C11_Witness ==
    /\ ReadDone
    /\ ConsecutiveAcrossWrap
    /\ R = MaxRedundancy
    /\ storage[R - 3][4] = 254
    /\ storage[R - 2][4] = 255
    /\ storage[R - 1][4] = 0
    /\ reader.slot.index = R - 1

ValidSlots == {i \in Slots : ImageValid(storage[i])}
TheValidSlot == CHOOSE i \in ValidSlots : TRUE

\* C12 (as claimed), under SpecRead: when exactly one slot is valid, whatever
\* its index and sequence number, read() on a default-constructed reader
\* returns true with that slot's cursor and payload; when no slot is valid
\* read() returns false.
C12_SingleValidSlot ==
    ReadDone =>
        /\ Cardinality(ValidSlots) = 1 =>
              /\ readRet = "true"
              /\ reader.slot = [index |-> TheValidSlot,
                                sequence_number |-> storage[TheValidSlot][4]]
              /\ payload(reader) = ImagePayload(storage[TheValidSlot])
        /\ ValidSlots = {} => readRet = "false"


\* the write_next before the last one failed and the last one succeeded
FailedThenWritten ==
    /\ Len(writeLog) >= 2
    /\ writeLog[Len(writeLog) - 1].outcome = "fail"
    /\ LastWrite.outcome = "ok"

\* C31 (as claimed), under SpecRecord: when a write_next fails, its slot
\* keeping what it held, and the next write_next succeeds, read() on a
\* default-constructed reader returns true with the payload of the
\* successful write, for every R >= 2 and every position in the rotation.
C31_FailedWriteRecovery ==
    (ReadDone /\ R >= 2 /\ FailedThenWritten) =>
        /\ readRet = "true"
        /\ payload(reader) = ImagePayload(LastWrite.data)

\* what read() yields, every read_fn succeeding, for a record constructed
\* with the cursor `slot` over the storage of the state
OutcomeFrom(slot) == read(jjrecord(slot), storage, {})

\* C32 (as claimed), under SpecReaders: over the same storage and with
\* every read_fn succeeding, read() returns the same boolean whatever
\* (index, sequence number) the reader's current_slot held before the call
\* and, on success, leaves the same payload and the same current_slot.
C32_ReaderIndependence ==
    ReadDone =>
        \A slot \in ReaderSlots :
            /\ Ret(OutcomeFrom(slot).ret) = readRet
            /\ readRet = "true" =>
                  /\ payload(OutcomeFrom(slot).rec) = payload(reader)
                  /\ OutcomeFrom(slot).rec.slot = reader.slot

\* the writer's write_next calls, all successful, went round every slot
RotationFilled ==
    /\ writeCount >= R
    /\ \A k \in 1..writeCount : writeLog[k].outcome = "ok"

\* the newest and the oldest record of the rotation before the record that
\* read the storage wrote: the writer's last write and the one R - 1 before
NewestWrite == writeLog[writeCount]
OldestWrite == writeLog[writeCount - R + 1]

\* C33 (as claimed), under SpecResume: over storage filled by at least R
\* consecutive successful write_next calls (R >= 2), a record whose read()
\* returned true and which then calls write_next writes the slot that held
\* the oldest record of the rotation, never the slot of the newest, with
\* the sequence number that follows the newest record's.
C33_ResumeAfterRead ==
    (Resumed /\ R >= 2 /\ RotationFilled) =>
        /\ LastWrite.index = OldestWrite.index
        /\ LastWrite.index # NewestWrite.index
        /\ LastWrite.data[4] = (NewestWrite.data[4] + 1) % 256

\* C34 (as claimed), under SpecReaders: whenever read() returns false, no
\* slot having validated or read_fn having failed at some slot, the payload
\* bytes and current_slot() of the record are those it had before the call.
C34_FailedReadUnchanged ==
    readRet = "false" =>
        /\ payload(reader) = payload(readInit)
        /\ reader.slot = readInit.slot

\* C34 (amended), under SpecReaders: when read() returns false and no slot
\* was accepted (none validated, or read_fn failed before any did), the
\* record is as it was before the call; when read() returns false after
\* accepting a slot, read_fn failed at a later slot i, and the payload and
\* current_slot() are those of the last slot accepted among 0..i-1.
C34_FailedReadAmended ==
    readRet = "false" =>
        IF AcceptedSteps = {}
        THEN reader = readInit
        ELSE /\ readFailing # {}
             /\ LET i == readSteps[LastAccepted].index
                IN  /\ i < FirstFailing
                    /\ payload(reader) = ImagePayload(storage[i])
                    /\ reader.slot = [index |-> i,
                                      sequence_number |-> storage[i][4]]

\* C34 witness: a record constructed away from the default cursor accepted
\* slots 0 and 1, read_fn failed at slot 2, and read() returned false with
\* the cursor and the payload of slot 1.
C34_Witness ==
    /\ readRet = "false"
    /\ R = 3
    /\ readFailing = {2}
    /\ readInit.slot.index # 0
    /\ Len(readSteps) = 2
    /\ readSteps[1].ok
    /\ readSteps[2].ok
    /\ reader.slot.index = 1
    /\ payload(reader) # payload(readInit)

----------------------------------------------------------------------------
(* RING claims, checked under SpecApi and SpecOverwrite *)

\* the elements stored between tail and head, oldest first
Contents(h, t, b) == [j \in 1..size_approx(h, t) |-> b[Masked(t + j - 1)]]
\* the elements stored when the current call started
Contents0 == Contents(call.head0, call.tail0, call.buf0)
Stored0 == size_approx(call.head0, call.tail0)
BothIdle == prod.pc = "idle" /\ cons.pc = "idle"
CursorsAsBefore == head = call.head0 /\ tail = call.tail0
DoneP(op) == call.done /\ call.side = "P" /\ call.op = op
DoneC(op) == call.done /\ call.side = "C" /\ call.op = op

\* C13, under SpecApi (N = 2, 4, .., the cursors of the empty ring at every
\* position): the elements stored are those enqueued and not dequeued; a push
\* succeeds exactly when fewer than N-1 elements are stored, so N-1 pushes
\* into an empty ring succeed and the next returns false, leaving head, tail
\* and the slots unchanged; pop on an empty ring returns false leaving head
\* and tail unchanged.
C13_Capacity ==
    /\ BothIdle => size_approx(head, tail) = pushed - Len(popped) - evicted
    /\ DoneP("push") =>
          /\ call.ok = (Stored0 < N - 1)
          /\ call.ok => size_approx(head, tail) = Stored0 + 1
          /\ ~call.ok => (CursorsAsBefore /\ buf = call.buf0)
    /\ (DoneC("pop") /\ Stored0 = 0) => (~call.ok /\ CursorsAsBefore)

\* C13 witness: N = 2, cursors at slot 1: one push succeeded and the next
\* returned false.
C13_Witness ==
    /\ logN = 1
    /\ DoneP("push")
    /\ ~call.ok
    /\ prev.op = "push"
    /\ prev.ok
    /\ prev.head0 = 1
    /\ prev.tail0 = 1

\* C14, under SpecApi: push_overwrite on a ring that is not full does what a
\* successful push does (the element is appended, head advances, tail
\* stays); on a full ring the oldest element goes, the new one is appended
\* and the ring stays full; and each pop hands out the oldest stored element,
\* so the pops that follow return the remaining elements in order and then
\* the new one.
C14_PushOverwrite ==
    /\ DoneP("overwrite") =>
          IF full(call.head0, call.tail0)
          THEN /\ Contents(head, tail, buf) = Tail(Contents0) \o <<call.pushed0 + 1>>
               /\ full(head, tail)
               /\ head = Masked(call.head0 + 1)
          ELSE /\ Contents(head, tail, buf) = Contents0 \o <<call.pushed0 + 1>>
               /\ tail = call.tail0
               /\ head = Masked(call.head0 + 1)
    /\ (DoneC("pop") /\ Stored0 > 0) =>
          /\ call.ok
          /\ call.got = <<Contents0[1]>>
          /\ Contents(head, tail, buf) = Tail(Contents0)

\* C14 witness: N = 4, a push_overwrite on the full ring evicted element 1,
\* and the pop after it returned element 2.
C14_Witness ==
    /\ logN = LogN
    /\ DoneC("pop")
    /\ call.got = <<2>>
    /\ prev.side = "P"
    /\ prev.op = "overwrite"
    /\ full(prev.head0, prev.tail0)
    /\ evicted = 1

\* the values the consumer has been handed are strictly increasing
ReceivedInOrder ==
    \A k \in 1..(Len(Received) - 1) : Received[k] < Received[k + 1]

\* elements enqueued that are neither handed out nor stored any more
Lost == pushed - Len(popped) - size_approx(head, tail)

\* C15 (as claimed), under SpecOverwrite: with push_overwrite racing with
\* pop, the consumer never receives an element twice or out of order, and
\* each push_overwrite on a full buffer costs at most one element besides
\* the evicted one.
C15_OverwriteRace ==
    /\ ReceivedInOrder
    /\ BothIdle => Lost <= 2 * evicted

\* C16 (as claimed), under SpecApi: every producer-side call leaves tail
\* unchanged and every consumer-side call leaves head unchanged.
C16_CursorOwnership ==
    /\ call.side = "P" => tail = call.tail0
    /\ call.side = "C" => head = call.head0

\* C16 (amended), under SpecApi: push, bulk push, write_acquire and
\* write_commit leave tail unchanged; push_overwrite leaves tail unchanged on
\* a ring that is not full and advances it by one on a full ring; every
\* consumer-side call leaves head unchanged.
C16_CursorOwnershipAmended ==
    /\ (call.side = "P" /\ call.op # "overwrite") => tail = call.tail0
    /\ DoneP("overwrite") =>
          tail = IF full(call.head0, call.tail0)
                 THEN Masked(call.tail0 + 1) ELSE call.tail0
    /\ call.side = "C" => head = call.head0

\* C16 witness: a push_overwrite on a full ring has moved tail.
C16_Witness ==
    /\ DoneP("overwrite")
    /\ full(call.head0, call.tail0)
    /\ tail # call.tail0
    /\ head # call.head0

\* C17, under SpecApi: on an empty ring, the cursors anywhere, push(src, n)
\* returning r followed by pop(dst, n') returns min(n', r) and hands out the
\* first min(n', r) elements of src.
C17_BulkRoundTrip ==
    (/\ DoneC("bulk")
     /\ prev.side = "P"
     /\ prev.op = "bulk"
     /\ prev.head0 = prev.tail0) =>
        /\ call.count = Min(call.n, prev.count)
        /\ call.got = [j \in 1..Min(call.n, prev.count) |-> prev.pushed0 + j]

\* C17 witness: a bulk push of 3 that split at the wrap, then a bulk pop
\* of 2 of them.
C17_Witness ==
    /\ DoneC("bulk")
    /\ prev.side = "P"
    /\ prev.op = "bulk"
    /\ prev.head0 = prev.tail0
    /\ prev.head0 + prev.count > N
    /\ prev.count >= 3
    /\ call.n = 2
    /\ Len(call.got) = 2

\* C18, under SpecApi: with s elements stored, push(src, n) returns
\* min(n, N-1-s) and advances head by that much modulo N; pop(dst, n) returns
\* min(n, s) and advances tail by that much; a bulk transfer of size 0 and a
\* commit of 0 leave head and tail unchanged.
C18_BulkCounts ==
    /\ DoneP("bulk") =>
          /\ call.count = Min(call.n, N - 1 - Stored0)
          /\ head = Masked(call.head0 + call.count)
          /\ tail = call.tail0
          /\ call.n = 0 => CursorsAsBefore
    /\ DoneC("bulk") =>
          /\ call.count = Min(call.n, Stored0)
          /\ tail = Masked(call.tail0 + call.count)
          /\ head = call.head0
          /\ call.n = 0 => CursorsAsBefore
    /\ (call.done /\ call.op = "acquire" /\ call.count = 0) => CursorsAsBefore

\* C18 witness: a bulk push asking for more than the free space was clamped.
C18_Witness ==
    /\ DoneP("bulk")
    /\ Stored0 > 0
    /\ call.count > 0
    /\ call.count < call.n

\* write_acquire / read_acquire of the current call has returned
Acquired ==
    /\ call.op = "acquire"
    /\ call.side = "P" => prod.pc # "load_tail"
    /\ call.side = "C" => cons.pc # "load_head"

\* C19, under SpecApi: with s elements stored, write_acquire returns
\* min(N-1-s, N-head) and a pointer to slot head, or 0 and null when the
\* ring is full; read_acquire returns min(s, N-tail) and a pointer to slot
\* tail, or 0 and null when the ring is empty; neither moves head or tail.
C19_WindowSize ==
    /\ (Acquired /\ call.side = "P") =>
          /\ call.win = Min(N - 1 - Stored0, N - call.head0)
          /\ call.win = 0 <=> Stored0 = N - 1
          /\ IF call.win = 0 THEN call.ptr = "null" ELSE call.ptr = call.head0
    /\ (Acquired /\ call.side = "C") =>
          /\ call.win = Min(Stored0, N - call.tail0)
          /\ call.win = 0 <=> Stored0 = 0
          /\ IF call.win = 0 THEN call.ptr = "null" ELSE call.ptr = call.tail0
    /\ (Acquired /\ (prod.pc = "window" \/ cons.pc = "window" \/ BothIdle)
           /\ call.count = 0) => CursorsAsBefore

\* C19 witness: a write window cut short by the end of the buffer.
C19_Witness ==
    /\ Acquired
    /\ call.side = "P"
    /\ prod.pc = "window"
    /\ call.win > 0
    /\ call.win < N - 1 - Stored0

\* the last two calls are acquire/commit pairs of one side, each committing
\* the whole window it was given
TwoWholePairs(side) ==
    /\ call.done
    /\ call.side = side
    /\ call.op = "acquire"
    /\ call.count = call.win
    /\ prev.done
    /\ prev.side = side
    /\ prev.op = "acquire"
    /\ prev.count = prev.win

\* C20, under SpecApi: two write_acquire/write_commit pairs, each committing
\* its whole window, fill all the free space: the counts sum to N-1-s and
\* the ring is full; two read_acquire/read_commit pairs hand out all s
\* stored elements, oldest first.
C20_TwoPairs ==
    /\ TwoWholePairs("P") =>
          /\ prev.win + call.win = N - 1 - size_approx(prev.head0, prev.tail0)
          /\ full(head, tail)
    /\ TwoWholePairs("C") =>
          /\ prev.win + call.win = size_approx(prev.head0, prev.tail0)
          /\ empty(head, tail)
          /\ prev.got \o call.got = Contents(prev.head0, prev.tail0, prev.buf0)

\* C20 witness: three elements stored across the wrap were handed out by
\* two read windows.
C20_Witness ==
    /\ TwoWholePairs("C")
    /\ prev.win > 0
    /\ call.win > 0
    /\ prev.win + call.win = N - 1
    /\ call.tail0 = 0


\* C21, under SpecState: between the calls of any single-threaded sequence
\* of clear, push, bulk push, push_overwrite, pop, bulk pop and
\* acquire/commit pairs, head and tail are in [0, N), size_approx() is in
\* [0, N-1] and is the number of elements enqueued and neither dequeued,
\* evicted nor cleared, empty() holds exactly when size_approx() is 0 and
\* full() exactly when it is N-1.
C21_StateInvariants ==
    BothIdle =>
        /\ head \in 0..(N - 1)
        /\ tail \in 0..(N - 1)
        /\ size_approx(head, tail) \in 0..(N - 1)
        /\ size_approx(head, tail) = pushed - Len(popped) - evicted - cleared
        /\ empty(head, tail) <=> size_approx(head, tail) = 0
        /\ empty(head, tail) <=> head = tail
        /\ full(head, tail) <=> size_approx(head, tail) = N - 1
        /\ full(head, tail) <=> (head + 1) % N = tail

\* C21 witness: after a clear() that dropped elements and a push_overwrite
\* that evicted one, the ring is full with head behind tail.
C21_Witness ==
    /\ BothIdle
    /\ logN = LogN
    /\ cleared >= 1
    /\ evicted >= 1
    /\ full(head, tail)
    /\ head < tail

\* the distance of two counts
Dist(a, b) == IF a < b THEN b - a ELSE a - b

\* C22 (as claimed), under SpecSize: the value size_approx() returns is
\* within one of the number of elements stored at some instant between
\* its load of head and its load of tail.
C22_SizeApprox ==
    obs.pc = "done" => \E s \in obs.seen : Dist(obs.ret, s) <= 1


\* C35 (as claimed), under SpecStatus: when full() returned false to the
\* producer, the producer's next push returns true, whatever pops the
\* consumer makes meanwhile; when empty() returned false to the consumer,
\* the consumer's next pop returns true, whatever push and push_overwrite
\* calls the producer makes meanwhile.
C35_StatusPredictions ==
    /\ (obs.P.said = "false" /\ obs.P.ret # "none") => obs.P.ret = "true"
    /\ (obs.C.said = "false" /\ obs.C.ret # "none") => obs.C.ret = "true"


\* the slots handed out by read_acquire and by write_acquire, until the
\* matching commit
ReadWindow ==
    IF cons.pc = "window" THEN {cons.t + j : j \in 0..(cons.n - 1)} ELSE {}
WriteWindow ==
    IF prod.pc = "window" THEN {prod.h + j : j \in 0..(prod.n - 1)} ELSE {}
\* the slots holding the stored elements
StoredSlots(h, t) == {Masked(t + j) : j \in 0..(size_approx(h, t) - 1)}
\* the slot the producer writes, and the slot the consumer reads, in a step
WrittenNow ==
    IF prod.pc = "copy" /\ prod' # prod
    THEN {bulk_slot(prod.h, prod.size, prod.i)}
    ELSE IF prod.pc = "window" /\ prod'.pc = "window" /\ prod' # prod
    THEN {prod.h + prod.i}
    ELSE {}
ReadNow ==
    IF cons.pc = "copy" /\ cons' # cons
    THEN {bulk_slot(cons.t, cons.size, cons.i)}
    ELSE IF cons.pc = "window" /\ cons'.pc = "window" /\ cons' # cons
    THEN {cons.t + cons.i}
    ELSE {}

\* C36, under Spec: from a read_acquire that returned n > 0 to the matching
\* read_commit no step of a producer push, bulk push or write window writes
\* one of the n slots, which keep their elements and stay among the stored
\* ones; from a write_acquire that returned n > 0 to the matching
\* write_commit no step of the consumer reads one of the n slots, which stay
\* outside the stored ones with room for all n, whatever the other side does
\* meanwhile.
C36_WindowStability ==
    [][/\ WrittenNow \cap ReadWindow = {}
       /\ ReadNow \cap WriteWindow = {}
       /\ (cons.pc = "window" /\ cons'.pc = "window") =>
             /\ ReadWindow' = ReadWindow
             /\ \A k \in ReadWindow : buf'[k] = buf[k]
             /\ ReadWindow \subseteq StoredSlots(head', tail')
       /\ (prod.pc = "window" /\ prod'.pc = "window") =>
             /\ WriteWindow' = WriteWindow
             /\ WriteWindow \cap StoredSlots(head', tail') = {}
             /\ size_approx(head', tail') + prod.n <= N - 1]_vars

\* C36 witness: the consumer holds a read window and has read from it, the
\* producer has published since that read_acquire, then opened a write
\* window and written into it.
C36_Witness ==
    /\ cons.pc = "window"
    /\ cons.i >= 1
    /\ head # cons.h
    /\ prod.pc = "window"
    /\ prod.i >= 1


\* a clear() has been called, and the elements it dropped
WasCleared == call.op = "clear"
DroppedByClear ==
    {Contents(call.head0, call.tail0, call.buf0)[j] :
        j \in 1..size_approx(call.head0, call.tail0)}
\* no element was handed out or evicted since the last clear()
OnlyPushedSince ==
    /\ WasCleared
    /\ Len(popped) = call.popped0
    /\ evicted = call.evicted0

\* C37, under SpecState: clear() called between two calls leaves head = 0
\* and tail = 0, empty() true, full() false and size_approx() 0; after it
\* the ring takes N-1 elements and no more (a push returns false exactly
\* when N-1 elements were accepted since the clear, as long as nothing was
\* popped or evicted), and no element that was stored when clear() was
\* called is ever handed out by a pop.
C37_Clear ==
    [][/\ call' # call =>
             /\ head' = 0
             /\ tail' = 0
             /\ empty(head', tail')
             /\ ~full(head', tail')
             /\ size_approx(head', tail') = 0
       /\ OnlyPushedSince' =>
             /\ pushed' - call'.pushed0 <= N - 1
             /\ size_approx(head', tail') = pushed' - call'.pushed0
       /\ (OnlyPushedSince /\ prod.op = "push" /\ prod.pc = "load_tail") =>
             (prod'.pc = "idle" <=> pushed - call.pushed0 = N - 1)
       /\ WasCleared' =>
             \A k \in 1..Len(popped') : popped'[k] \notin DroppedByClear']_vars

\* C37 witness: a clear() dropped two elements of a ring of four slots
\* whose cursors were away from 0, three pushes were accepted, and a pop
\* handed out the first of them.
C37_Witness ==
    /\ WasCleared
    /\ BothIdle
    /\ logN = 2
    /\ call.tail0 # 0
    /\ size_approx(call.head0, call.tail0) = 2
    /\ pushed - call.pushed0 = N - 1
    /\ Len(popped) = call.popped0 + 1
    /\ popped[Len(popped)] = call.pushed0 + 1


----------------------------------------------------------------------------
(* SCHEMA claims, checked under SpecSchema *)

\* the proxy the last operation went through
LastProxy == View[last.k]

\* get() through that proxy now
LastGet == proxy_get(LastProxy.meta, regdata, LastProxy.ptr)

\* C23: after set(v) through the proxy of a clamped meta, get() returns a
\* value of the permitted range: for u8 and i8 it is min when v is below
\* min, max when v is above max and v otherwise, hence within [min, max];
\* for e8 it is below the count, count - 1 when v is not below the count and
\* v otherwise.
C23_Clamping ==
    (last.op = "set" /\ LastProxy.meta.kind \in {"u8", "i8", "e8"}) =>
        LET meta == LastProxy.meta
            v == last.v
        IN  IF meta.kind = "e8"
            THEN /\ LastGet \in 0..(meta.size - 1)
                 /\ v >= meta.size => LastGet = meta.size - 1
                 /\ v < meta.size => LastGet = v
            ELSE /\ LastGet \in meta.min..meta.max
                 /\ v < meta.min => LastGet = meta.min
                 /\ v > meta.max => LastGet = meta.max
                 /\ v \in meta.min..meta.max => LastGet = v

\* an i8 set below its minimum reads back the minimum, a negative number
C23_Witness ==
    /\ last.op = "set"
    /\ LastProxy.meta.kind = "i8"
    /\ last.v < LastProxy.meta.min
    /\ LastGet = LastProxy.meta.min
    /\ LastGet < 0


\* what the proxy of index k of the view reads back: get() of a scalar, the
\* string get() returns, the size of a list
ReadsBack(k) ==
    LET p == View[k]
    IN  CASE p.meta.kind \in Scalars -> proxy_get(p.meta, regdata, p.ptr)
          [] p.meta.kind = "string" -> string_get(regdata, p.ptr, p.meta.n).ret
          [] p.meta.kind = "list" -> list_size(regdata, p.ptr)

\* the fields of the view, of its nested schemas and the elements of their
\* arrays that hold a value: the proxies but those of list items
Valued == {k \in 1..Len(View) : /\ View[k].list = -1
                                 /\ View[k].meta.kind \notin {"array", "jjreg"}}

\* what reset() is said to leave in the proxy of index k
DeclaredDefault(k) ==
    IF View[k].meta.kind = "list" THEN 0 ELSE View[k].meta.default_value

\* C24: after reset() on a view, whatever the buffer held before, every
\* u8, i8, e8 and bool field reads back the default_value declared in its
\* meta, every string reads back its declared default, every list has
\* length 0 and every array element reads back its element default.
C24_Reset ==
    last.op = "reset" => \A k \in Valued : ReadsBack(k) = DeclaredDefault(k)


\* the offsets of the reserved bytes [size, capacity) of a schema viewed at ptr
ReservedOf(sch, ptr) == (ptr + schema_size(sch))..(ptr + sch.capacity - 1)

\* the reserved bytes of the schema of the view and of every nested schema
Reserved ==
    ReservedOf(Root, 0) \cup
    UNION {ReservedOf(View[k].meta.schema, View[k].ptr) :
              k \in {j \in 1..Len(View) : View[j].meta.kind = "jjreg"}}

\* C25: whatever sequence of reset, set, assignment, in-range element writes
\* and push_back is made through a view, the bytes [size, capacity) of its
\* schema and of every nested schema keep what the caller had put there.
C25_ReservedBytes == \A i \in Reserved : Peek(regdata, i) = fill

\* a second operation has written into a nested schema that has reserved
\* bytes
C25_Witness ==
    /\ ops >= 2
    /\ last.op \in {"set", "push_back"}
    /\ regdata # last.before
    /\ \E k \in 1..Len(View) :
          /\ View[k].meta.kind = "jjreg"
          /\ ReservedOf(View[k].meta.schema, View[k].ptr) # {}
          /\ LastProxy.ptr \in View[k].ptr..(View[k].ptr + View[k].meta.schema.capacity - 1)


\* the lists of the view, by their index in View
Lists == {k \in 1..Len(View) : View[k].meta.kind = "list"}

\* C26: push_back(v) on a list of length L below its capacity C stores v,
\* clamped by the meta of the items, at index L, leaves the items before it
\* unchanged, makes the length L + 1 and returns true; on a list of length C
\* it returns false and changes no byte of the buffer. reset() makes the
\* length 0, and no operation takes a length out of [0, C].
C26_PushBack ==
    /\ last.op = "push_back" =>
          LET ptr == LastProxy.ptr
              meta == LastProxy.meta
              L == list_size(last.before, ptr)
          IN  /\ L < meta.capacity =>
                    /\ last.ret = "true"
                    /\ proxy_get(meta.meta, regdata, item_ptr(meta, ptr, L))
                          = clamped(meta.meta, last.v)
                    /\ \A i \in (ptr + 1)..(item_ptr(meta, ptr, L) - 1) :
                          Peek(regdata, i) = Peek(last.before, i)
                    /\ list_size(regdata, ptr) = L + 1
              /\ L = meta.capacity =>
                    /\ last.ret = "false"
                    /\ regdata = last.before
    /\ last.op = "reset" =>
          \A k \in Lists : list_size(regdata, View[k].ptr) = 0
    /\ last.op # "none" =>
          \A k \in Lists :
              list_size(last.before, View[k].ptr) \in 0..View[k].meta.capacity
                  => list_size(regdata, View[k].ptr) \in 0..View[k].meta.capacity

\* a push_back on a list that two push_back had filled is refused
C26_Witness ==
    /\ last.op = "push_back"
    /\ last.ret = "false"
    /\ list_size(last.before, LastProxy.ptr) = LastProxy.meta.capacity
    /\ list_size(regdata, LastProxy.ptr) = 2


\* the offsets of the bytes of the proxy the last operation went through
LastRange == LastProxy.ptr..(LastProxy.ptr + field_size(LastProxy.meta) - 1)

\* the bytes of the buffer outside those offsets are as before the operation
OthersUnchanged(range) ==
    \A i \in (0..(Len(regdata) - 1)) \ range :
        Peek(regdata, i) = Peek(last.before, i)

\* C27: after set(s) through the proxy of a string<N>, whatever the field
\* held, get() returns the first min(len(s), N - 1) characters of s, a
\* terminator follows them, and no byte outside the N bytes of the field has
\* changed.
C27_StringSet ==
    last.op = "string_set" =>
        LET s == last.v
            kept == Min(Len(s), LastProxy.meta.n - 1)
        IN  /\ string_get(regdata, LastProxy.ptr, LastProxy.meta.n).ret
                  = SubSeq(s, 1, kept)
            /\ Peek(regdata, LastProxy.ptr + kept) = 0
            /\ OthersUnchanged(LastRange)

\* a string longer than the field has room for was set over other content
C27_Witness ==
    /\ last.op = "string_set"
    /\ Len(last.v) > LastProxy.meta.n - 1
    /\ Peek(last.before, LastProxy.ptr) # last.v[1]
    /\ Len(string_get(regdata, LastProxy.ptr, LastProxy.meta.n).ret)
          = LastProxy.meta.n - 1


\* what element i of the array the last operation went through reads back
ElementReads(i) ==
    LET meta == LastProxy.meta.meta
        ptr == element_ptr(LastProxy.meta, LastProxy.ptr, i)
    IN  IF meta.kind = "string" THEN string_get(regdata, ptr, meta.n).ret
        ELSE proxy_get(meta, regdata, ptr)

\* what item v reads back as once set through a proxy of the meta: clamped,
\* or cut to the room of the string
Coerced(meta, v) ==
    IF meta.kind = "string" THEN SubSeq(v, 1, Min(Len(v), meta.n - 1))
    ELSE clamped(meta, v)

\* C28: set(src, n) through the proxy of an array<M, K> writes item i of
\* src through the proxy of element i, with M's clamping or truncation, for
\* the indices i < min(n, K), also when n > K, and changes no byte of the
\* elements from index min(n, K) on, nor any byte outside the array.
C28_ArraySet ==
    last.op = "array_set" =>
        LET meta == LastProxy.meta
            written == Min(last.n, meta.n)
        IN  /\ \A i \in 0..(written - 1) :
                  ElementReads(i) = Coerced(meta.meta, last.v[i + 1])
            /\ \A i \in element_ptr(meta, LastProxy.ptr, written)..
                         (element_ptr(meta, LastProxy.ptr, meta.n) - 1) :
                  Peek(regdata, i) = Peek(last.before, i)
            /\ OthersUnchanged(LastRange)

\* a bulk set handed more items than the array has changed the array
C28_Witness ==
    /\ last.op = "array_set"
    /\ last.n > LastProxy.meta.n
    /\ regdata # last.before
    /\ ElementReads(LastProxy.meta.n - 1)
          = Coerced(LastProxy.meta.meta, last.v[LastProxy.meta.n])


\* the sizes of the fields of a schema before field i, added up
RECURSIVE SizesBefore(_, _)
SizesBefore(fields, i) ==
    IF i = 0 THEN 0 ELSE field_size(fields[i]) + SizesBefore(fields, i - 1)

\* the offsets of the bytes of the proxy of index k of the view
RangeOf(k) == View[k].ptr..(View[k].ptr + field_size(View[k].meta) - 1)

\* the layout of the view of the schema of index s: each field proxy is at
\* the offset of its view plus the sizes of the fields before it, a nested
\* schema counts as its capacity, and the ranges of the fields of one view
\* are pairwise disjoint and within the size of its schema
LayoutOf(s) ==
    LET view == Views[s]
        fields == {k \in 1..Len(view) : view[k].view # -1}
        range(k) == view[k].ptr..(view[k].ptr + field_size(view[k].meta) - 1)
    IN  \A k \in fields :
          /\ view[k].ptr = view[k].view + SizesBefore(view[k].fields, view[k].index)
          /\ view[k].meta.kind = "jjreg" =>
                field_size(view[k].meta) = view[k].meta.schema.capacity
          /\ range(k) \subseteq
                view[k].view..(view[k].view
                                 + SizesBefore(view[k].fields, Len(view[k].fields)) - 1)
          /\ \A j \in fields :
                (view[j].view = view[k].view /\ view[j].index # view[k].index)
                    => range(j) \cap range(k) = {}

Layouts == <<>> \o [s \in 1..Len(Declarations) |-> LayoutOf(s)]

\* C29: the proxy of field i of a view points at the offset of the view plus
\* the sum of field_size(j) for j < i, a nested schema counting as its
\* capacity; the byte ranges of the fields of one view are pairwise disjoint
\* and lie within the size of its schema; and a set, reset, push_back or get
\* through one proxy changes no byte outside the range of that proxy.
C29_Layout ==
    /\ Layouts[IndexOf(schema)]
    /\ last.op \notin {"none", "reset"} => OthersUnchanged(LastRange)

\* a set or push_back through a field that is not the first of its view has
\* changed the buffer
C29_Witness ==
    /\ last.op \in {"set", "push_back"}
    /\ LastProxy.view # -1
    /\ LastProxy.index >= 2
    /\ regdata # last.before


\* the last operation was reset() on a view: on the view of the buffer, or
\* through the proxy of a nested schema
ViewWasReset ==
    \/ last.op = "reset"
    \/ last.op = "proxy_reset" /\ LastProxy.meta.kind = "jjreg"

\* the proxies that hold a value and belong to the view reset() was called
\* on, at any depth
ResetCovers ==
    {k \in Valued : IF last.op = "reset" THEN TRUE ELSE View[k].ptr \in LastRange}

\* the proxies reached through a nested schema of the view
Nested ==
    {k \in 1..Len(View) :
        \E j \in 1..(k - 1) : /\ View[j].meta.kind = "jjreg"
                               /\ View[k].ptr \in RangeOf(j)}

\* C30: reset() on a parent view resets every field of every nested schema,
\* at any depth: the nested lists have length 0, the nested scalars and
\* strings read back their defaults, the elements of the nested arrays their
\* element default. (What the parent's own fields read back is C24.)
C30_NestedReset ==
    ViewWasReset =>
        \A k \in ResetCovers \cap Nested : ReadsBack(k) = DeclaredDefault(k)

====
